---------------------------- MODULE Spec2Model ----------------------------
(***************************************************************************)
(* Model of configdiff's structural differ (package diff): Diff and the    *)
(* recursive traversal diffNodes / diffObjects / diffArrays /              *)
(* diffArrayAsSet, the ignore-pattern matcher matchPath / matchSegments    *)
(* and the coercion rule canCoerce.                                        *)
(*                                                                         *)
(* Three kinds of run are modelled: one call of Diff (pc, a, b, opts,      *)
(* changes, err), one call of matchPath (argPath, argPattern, matched),    *)
(* and several calls of Diff whose steps interleave (calls).  A            *)
(* specification of one kind leaves the variables of the other kinds at    *)
(* their idle values.                                                      *)
(*                                                                         *)
(* Go strings are sequences of one-character strings, so that joinPath,    *)
(* fmt.Sprintf, strings.Trim / Split / Join and the byte-wise string       *)
(* comparison used by sort are computed, not assumed.                      *)
(*                                                                         *)
(* Go ranges over maps in an unspecified order.  Every traversal operator  *)
(* therefore returns the SET of change lists the call can append, one per  *)
(* iteration order the runtime may pick.                                   *)
(***************************************************************************)
EXTENDS Integers, Sequences, FiniteSets, TLC

VARIABLES pc, a, b, opts, changes, err, argPath, argPattern, matched, calls,
          patch, patchErr, validErr, result, cli, render

diffVars == <<pc, a, b, opts, changes, err>>

matchVars == <<argPath, argPattern, matched>>

patchVars == <<patch, patchErr, validErr>>

vars ==
    <<pc, a, b, opts, changes, err, argPath, argPattern, matched, calls,
      patch, patchErr, validErr, result, cli, render>>

-----------------------------------------------------------------------------
(* Strings *)

\* The characters of the model in ascending byte order ('*' 42, '/' 47,
\* '0'..'9' 48..57, '=' 61, 'T' 84, '[' 91, ']' 93, 'a' 97, 'b' 98, 'e' 101,
\* 'f' 102, 'l' 108, 'p' 112, 'r' 114, 's' 115, 't' 116, 'u' 117, 'y' 121).
Alphabet ==
    <<"*", "/", "0", "1", "2", "3", "4", "5", "6", "7", "8", "9",
      "=", "T", "[", "]", "a", "b", "e", "f", "l", "p", "r", "s", "t", "u",
      "y">>

Digits == <<"0", "1", "2", "3", "4", "5", "6", "7", "8", "9">>

Code(c) == CHOOSE i \in 1..Len(Alphabet) : Alphabet[i] = c

MinOf(S) == CHOOSE x \in S : \A y \in S : x <= y

\* Go's s < t on strings: byte-wise lexicographic order.
StrLess(s, t) ==
    LET n == IF Len(s) < Len(t) THEN Len(s) ELSE Len(t)
        d == {i \in 1..n : s[i] # t[i]}
    IN  IF d = {} THEN Len(s) < Len(t)
        ELSE Code(s[MinOf(d)]) < Code(t[MinOf(d)])

\* strconv-style %d for a non-negative int.
RECURSIVE Itoa(_)
Itoa(n) ==
    IF n < 10 THEN <<Digits[n + 1]>>
    ELSE Itoa(n \div 10) \o <<Digits[(n % 10) + 1]>>

\* strings.Trim(s, "/")
RECURSIVE TrimLeft(_)
TrimLeft(s) ==
    IF s # <<>> /\ Head(s) = "/" THEN TrimLeft(Tail(s)) ELSE s

RECURSIVE TrimRight(_)
TrimRight(s) ==
    IF s # <<>> /\ s[Len(s)] = "/" THEN TrimRight(SubSeq(s, 1, Len(s) - 1))
    ELSE s

Trim(s) == TrimRight(TrimLeft(s))

\* strings.Split(s, "/"): always at least one segment; Split("") = [""].
RECURSIVE Split(_)
Split(s) ==
    LET cut == {i \in 1..Len(s) : s[i] = "/"}
    IN  IF cut = {} THEN <<s>>
        ELSE <<SubSeq(s, 1, MinOf(cut) - 1)>>
                 \o Split(SubSeq(s, MinOf(cut) + 1, Len(s)))

\* strings.Join(segs, "/")
RECURSIVE Join(_)
Join(segs) ==
    IF segs = <<>> THEN <<>>
    ELSE IF Len(segs) = 1 THEN segs[1]
    ELSE segs[1] \o <<"/">> \o Join(Tail(segs))

\* strings.Contains(s, "*")
ContainsStar(s) == \E i \in 1..Len(s) : s[i] = "*"

\* strconv.ParseFloat(s, 64) on the strings of the Alphabet: a non-empty run
\* of decimal digits, optionally followed by 'e' and a non-empty run of
\* decimal digits (the decimal exponent), parses to mantissa * 10^exponent;
\* any other string of the Alphabet fails to parse.  (The Alphabet has no
\* sign, point, underscore, 'x' or letters of "inf"/"nan", so no string of
\* the model takes ParseFloat's other forms; the values of the model are
\* integers below 2^53, which float64 holds exactly.)
RECURSIVE DigitsValue(_)
DigitsValue(s) ==
    IF s = <<>> THEN 0
    ELSE 10 * DigitsValue(SubSeq(s, 1, Len(s) - 1)) + (Code(s[Len(s)]) - Code("0"))

IsDigit(c) == \E i \in 1..Len(Digits) : Digits[i] = c

IsDigits(s) == s # <<>> /\ \A i \in 1..Len(s) : IsDigit(s[i])

RECURSIVE Pow10(_)
Pow10(n) == IF n = 0 THEN 1 ELSE 10 * Pow10(n - 1)

ParseFloat(s) ==
    LET es == {i \in 1..Len(s) : s[i] = "e"}
        mantissa == IF es = {} THEN s ELSE SubSeq(s, 1, MinOf(es) - 1)
        exponent == IF es = {} THEN <<"0">>
                    ELSE SubSeq(s, MinOf(es) + 1, Len(s))
    IN  IF IsDigits(mantissa) /\ IsDigits(exponent)
        THEN [ok |-> TRUE,
              num |-> [nan |-> FALSE,
                       v |-> DigitsValue(mantissa) * Pow10(DigitsValue(exponent))]]
        ELSE [ok |-> FALSE, num |-> [nan |-> FALSE, v |-> 0]]

\* float64 == : IEEE-754 equality, NaN is unequal to everything.
FloatEq(x, y) == ~x.nan /\ ~y.nan /\ x.v = y.v

-----------------------------------------------------------------------------
(* tree.Node *)

KindNull == "null"
KindBool == "bool"
KindNumber == "number"
KindString == "string"
KindObject == "object"
KindArray == "array"

\* A nil *tree.Node: the value is absent.
Nil == [Kind |-> "nil"]

NewNull == [Kind |-> KindNull]
NewBool(v) == [Kind |-> KindBool, Value |-> v]
NewNumber(v) == [Kind |-> KindNumber, Value |-> [nan |-> FALSE, v |-> v]]
NaN == [Kind |-> KindNumber, Value |-> [nan |-> TRUE, v |-> 0]]
NewString(s) == [Kind |-> KindString, Value |-> s]
\* m: a function from a set of keys to nodes
NewObject(m) == [Kind |-> KindObject, Object |-> m]
\* s: a sequence of nodes
NewArray(s) == [Kind |-> KindArray, Array |-> s]

\* interface{} equality of the Value fields of two nodes of the same scalar
\* kind (a.Value != b.Value compares the dynamic values).
ValueEq(x, y) ==
    IF x.Kind = KindNumber THEN FloatEq(x.Value, y.Value)
    ELSE x.Value = y.Value

-----------------------------------------------------------------------------
(* Ignore patterns *)

\* Mutant of matchSegments: a pattern left over when the path has ended
\* never matches, so a trailing '*' needs a segment of its own.
RECURSIVE matchSegments_starNeedsOne(_, _)
matchSegments_starNeedsOne(pathSegs, patternSegs) ==
    IF Len(patternSegs) = 0 THEN Len(pathSegs) = 0
    ELSE IF Len(pathSegs) = 0 THEN FALSE
    ELSE IF patternSegs[1] = <<"*">>
         THEN IF Len(patternSegs) = 1 THEN TRUE
              ELSE \/ matchSegments_starNeedsOne(Tail(pathSegs),
                                                 Tail(patternSegs))
                   \/ matchSegments_starNeedsOne(Tail(pathSegs), patternSegs)
    ELSE IF pathSegs[1] # patternSegs[1] THEN FALSE
    ELSE matchSegments_starNeedsOne(Tail(pathSegs), Tail(patternSegs))

\* matchSegments checks if path segments match pattern segments.
RECURSIVE matchSegments(_, _)
matchSegments(pathSegs, patternSegs) ==
    IF Len(patternSegs) = 0 THEN Len(pathSegs) = 0
    ELSE IF Len(pathSegs) = 0
         THEN \A i \in 1..Len(patternSegs) : patternSegs[i] = <<"*">>
    ELSE IF patternSegs[1] = <<"*">>
         THEN IF Len(patternSegs) = 1 THEN TRUE
              ELSE \/ matchSegments(Tail(pathSegs), Tail(patternSegs))
                   \/ matchSegments(Tail(pathSegs), patternSegs)
    ELSE IF pathSegs[1] # patternSegs[1] THEN FALSE
    ELSE matchSegments(Tail(pathSegs), Tail(patternSegs))

\* Mutant of matchPath: a pattern without wildcard matches every path that
\* starts with its segments.
matchPath_prefix(path, pattern) ==
    LET pathSegments == Split(Trim(path))
        patternSegments == Split(Trim(pattern))
    IN  IF ~ContainsStar(pattern)
        THEN /\ Len(pathSegments) >= Len(patternSegments)
             /\ SubSeq(pathSegments, 1, Len(patternSegments)) = patternSegments
        ELSE matchSegments(pathSegments, patternSegments)

\* matchPath checks if a path matches a pattern (supports * wildcard).
matchPath(path, pattern) ==
    LET pathSegments == Split(Trim(path))
        patternSegments == Split(Trim(pattern))
    IN  IF ~ContainsStar(pattern)
        THEN <<"/">> \o Join(pathSegments) = <<"/">> \o Join(patternSegments)
        ELSE matchSegments(pathSegments, patternSegments)

\* Mutant of shouldIgnore: the path is compared with the pattern as plain
\* text, so a pattern with a wildcard ignores nothing.
shouldIgnore_literal(path, o) ==
    \E i \in 1..Len(o.IgnorePaths) : path = o.IgnorePaths[i]

\* shouldIgnore checks if a path should be ignored.
shouldIgnore(path, o) ==
    \E i \in 1..Len(o.IgnorePaths) : matchPath(path, o.IgnorePaths[i])

-----------------------------------------------------------------------------
(* Changes *)

ChangeTypeAdd == "add"
ChangeTypeRemove == "remove"
ChangeTypeModify == "modify"
ChangeTypeMove == "move"

\* A diff.Change.  ArrayIndex is never set by the differ and is left out.
\* loc is a history field, not a field of the Go struct: the steps the
\* traversal took from the root to the place of the change, <<"key", k>>,
\* <<"idx", i>> or <<"set", keyField, keyValue>>.  The code never reads it.
Change(type, path, old, new, loc) ==
    [Type |-> type, Path |-> path, OldValue |-> old, NewValue |-> new,
     loc |-> loc]

\* joinPath joins path segments.
joinPath(base, key) ==
    IF base = <<"/">> THEN <<"/">> \o key
    ELSE base \o <<"/">> \o key

\* fmt.Sprintf("%s[%d]", path, i)
indexPath(path, i) == path \o <<"[">> \o Itoa(i) \o <<"]">>

\* fmt.Sprintf("%s[%s=%s]", path, keyField, key)
setPath(path, keyField, key) ==
    path \o <<"[">> \o keyField \o <<"=">> \o key \o <<"]">>

-----------------------------------------------------------------------------
(* Coercion *)

TextTrue == <<"t", "r", "u", "e">>

TextFalse == <<"f", "a", "l", "s", "e">>

\* Mutant of canCoerce: the numeric rule looks for the String on the old
\* side only.
canCoerce_stringFirst(x, y, o) ==
    LET px == ParseFloat(x.Value)
    IN  IF /\ o.Coercions.NumericStrings
           /\ x.Kind = KindString /\ y.Kind = KindNumber /\ px.ok
        THEN FloatEq(px.num, y.Value)
        ELSE IF /\ o.Coercions.BoolStrings
                /\ x.Kind = KindString /\ y.Kind = KindBool
                /\ x.Value \in {TextTrue, TextFalse}
        THEN y.Value = (x.Value = TextTrue)
        ELSE IF /\ o.Coercions.BoolStrings
                /\ x.Kind = KindBool /\ y.Kind = KindString
                /\ y.Value \in {TextTrue, TextFalse}
        THEN x.Value = (y.Value = TextTrue)
        ELSE FALSE

\* Mutant of canCoerce: either toggle switches both rules on.
canCoerce_oneToggle(x, y, o) ==
    LET px == ParseFloat(x.Value)
        py == ParseFloat(y.Value)
        on == o.Coercions.NumericStrings \/ o.Coercions.BoolStrings
    IN  IF on /\ x.Kind = KindString /\ y.Kind = KindNumber /\ px.ok
        THEN FloatEq(px.num, y.Value)
        ELSE IF on /\ x.Kind = KindNumber /\ y.Kind = KindString /\ py.ok
        THEN FloatEq(x.Value, py.num)
        ELSE IF /\ on /\ x.Kind = KindString /\ y.Kind = KindBool
                /\ x.Value \in {TextTrue, TextFalse}
        THEN y.Value = (x.Value = TextTrue)
        ELSE IF /\ on /\ x.Kind = KindBool /\ y.Kind = KindString
                /\ y.Value \in {TextTrue, TextFalse}
        THEN x.Value = (y.Value = TextTrue)
        ELSE FALSE

\* canCoerce checks if two nodes can be considered equal via coercion.
canCoerce(x, y, o) ==
    LET px == ParseFloat(x.Value)
        py == ParseFloat(y.Value)
    IN  IF /\ o.Coercions.NumericStrings
           /\ x.Kind = KindString /\ y.Kind = KindNumber /\ px.ok
        THEN FloatEq(px.num, y.Value)
        ELSE IF /\ o.Coercions.NumericStrings
                /\ x.Kind = KindNumber /\ y.Kind = KindString /\ py.ok
        THEN FloatEq(x.Value, py.num)
        ELSE IF /\ o.Coercions.BoolStrings
                /\ x.Kind = KindString /\ y.Kind = KindBool
                /\ x.Value = <<"t", "r", "u", "e">>
        THEN y.Value = TRUE
        ELSE IF /\ o.Coercions.BoolStrings
                /\ x.Kind = KindString /\ y.Kind = KindBool
                /\ x.Value = <<"f", "a", "l", "s", "e">>
        THEN y.Value = FALSE
        ELSE IF /\ o.Coercions.BoolStrings
                /\ x.Kind = KindBool /\ y.Kind = KindString
                /\ y.Value = <<"t", "r", "u", "e">>
        THEN x.Value = TRUE
        ELSE IF /\ o.Coercions.BoolStrings
                /\ x.Kind = KindBool /\ y.Kind = KindString
                /\ y.Value = <<"f", "a", "l", "s", "e">>
        THEN x.Value = FALSE
        ELSE FALSE

-----------------------------------------------------------------------------
(* Iteration order *)

\* Every sequence that lists each element of the finite set S once: the
\* orders in which a range over a Go map with key set S can deliver its keys.
RECURSIVE Enumerations(_)
Enumerations(S) ==
    IF S = {} THEN {<<>>}
    ELSE UNION {{<<x>> \o rest : rest \in Enumerations(S \ {x})} : x \in S}

\* sort.Strings(keys): the one enumeration in ascending byte order.
SortStrings(S) ==
    CHOOSE order \in Enumerations(S) :
        \A i \in 1..(Len(order) - 1) : StrLess(order[i], order[i + 1])

\* Mutant of visitOrders: keys is never sorted.
visitOrders_unsorted(allKeys, stableOrder) == Enumerations(allKeys)

\* The contents keys can have when the loop over it starts: the keys of
\* allKeys appended in the order the range over the map delivered them, then
\* sorted if StableOrder is set.
visitOrders(allKeys, stableOrder) ==
    IF stableOrder THEN {SortStrings(allKeys)} ELSE Enumerations(allKeys)

\* The change lists a sequence of calls can append, runs[i] being the set of
\* lists the i-th call can append.
RECURSIVE ConcatRuns(_)
ConcatRuns(runs) ==
    IF runs = <<>> THEN {<<>>}
    ELSE UNION {{first \o rest : rest \in ConcatRuns(Tail(runs))}
                   : first \in Head(runs)}

-----------------------------------------------------------------------------
(* The traversal.  o is d.opts; every operator returns the set of change     *)
(* lists its call can append to d.changes (addChange appends, in call order). *)

RECURSIVE diffNodes(_, _, _, _, _)
RECURSIVE diffObjects(_, _, _, _, _)
RECURSIVE diffArrays(_, _, _, _, _)
RECURSIVE diffArrayAsSet(_, _, _, _, _, _)

\* extractKey extracts the key field value from an object node.
extractKey(node, keyField) ==
    IF node.Kind # KindObject THEN <<>>
    ELSE IF keyField \notin DOMAIN node.Object THEN <<>>
    ELSE IF node.Object[keyField].Kind # KindString THEN <<>>
    ELSE node.Object[keyField].Value

\* The map diffArrayAsSet builds from one array: every element with a
\* non-empty key, a later element replacing an earlier one of the same key.
elemMap(arr, keyField) ==
    LET keyed == {i \in 1..Len(arr) : extractKey(arr[i], keyField) # <<>>}
        last(k) == CHOOSE i \in keyed :
                       /\ extractKey(arr[i], keyField) = k
                       /\ \A j \in keyed :
                              extractKey(arr[j], keyField) = k => j <= i
    IN  [k \in {extractKey(arr[i], keyField) : i \in keyed} |-> arr[last(k)]]

\* Mutant of absentChange: the Remove carries the absent new side.
absentChange_removeNew(x, y, path, loc) ==
    IF x = Nil
    THEN <<Change(ChangeTypeAdd, path, Nil, y, loc)>>
    ELSE <<Change(ChangeTypeRemove, path, y, Nil, loc)>>

\* Mutant of absentChange: Add and Remove are taken for one another.
absentChange_swapped(x, y, path, loc) ==
    IF x = Nil
    THEN <<Change(ChangeTypeRemove, path, y, Nil, loc)>>
    ELSE <<Change(ChangeTypeAdd, path, Nil, x, loc)>>

\* The nil cases of diffNodes: one side absent.
absentChange(x, y, path, loc) ==
    IF x = Nil
    THEN <<Change(ChangeTypeAdd, path, Nil, y, loc)>>
    ELSE <<Change(ChangeTypeRemove, path, x, Nil, loc)>>

\* Mutant of kindMismatch: a change of kind is reported as the old value
\* removed and the new one added.
kindMismatch_removeAdd(x, y, path, loc, o) ==
    IF canCoerce(x, y, o) THEN <<>>
    ELSE <<Change(ChangeTypeRemove, path, x, Nil, loc),
           Change(ChangeTypeAdd, path, Nil, y, loc)>>

\* Mutant of kindMismatch: the values of the Modify leave out the members
\* whose own path is ignored.
kindMismatch_filtered(x, y, path, loc, o) ==
    LET Kept(n) ==
            IF n.Kind # KindObject THEN n
            ELSE NewObject([k \in {j \in DOMAIN n.Object :
                                      ~shouldIgnore(joinPath(path, j), o)}
                               |-> n.Object[k]])
    IN  IF canCoerce(x, y, o) THEN <<>>
        ELSE <<Change(ChangeTypeModify, path, Kept(x), Kept(y), loc)>>

\* The kind-mismatch case of diffNodes.
kindMismatch(x, y, path, loc, o) ==
    IF canCoerce(x, y, o) THEN <<>>
    ELSE <<Change(ChangeTypeModify, path, x, y, loc)>>

\* Mutant of scalarChange: the Modify of a scalar carries the new value
\* only.
scalarChange_newOnly(x, y, path, loc) ==
    IF ~ValueEq(x, y)
    THEN <<Change(ChangeTypeModify, path, Nil, y, loc)>>
    ELSE <<>>

\* a variant of scalarChange in which two Strings that parse to the same
\* number are equal
scalarChange_numeric(x, y, path, loc) ==
    IF /\ ~ValueEq(x, y)
       /\ ~(/\ x.Kind = KindString
            /\ ParseFloat(x.Value).ok /\ ParseFloat(y.Value).ok
            /\ FloatEq(ParseFloat(x.Value).num, ParseFloat(y.Value).num))
    THEN <<Change(ChangeTypeModify, path, x, y, loc)>>
    ELSE <<>>

\* The Bool, Number and String case of diffNodes.
scalarChange(x, y, path, loc) ==
    IF ~ValueEq(x, y)
    THEN <<Change(ChangeTypeModify, path, x, y, loc)>>
    ELSE <<>>

\* diffNodes compares two nodes at a given path.
diffNodes(x, y, path, loc, o) ==
    IF shouldIgnore(path, o) THEN {<<>>}
    ELSE IF x = Nil /\ y = Nil THEN {<<>>}
    ELSE IF x = Nil \/ y = Nil THEN {absentChange(x, y, path, loc)}
    ELSE IF x.Kind # y.Kind THEN {kindMismatch(x, y, path, loc, o)}
    ELSE IF x.Kind = KindNull THEN {<<>>}
    ELSE IF x.Kind \in {KindBool, KindNumber, KindString}
         THEN {scalarChange(x, y, path, loc)}
    ELSE IF x.Kind = KindObject THEN diffObjects(x, y, path, loc, o)
    ELSE diffArrays(x, y, path, loc, o)

\* diffObjects compares two object nodes.
diffObjects(x, y, path, loc, o) ==
    LET allKeys == DOMAIN x.Object \cup DOMAIN y.Object
        child(key) ==
            LET childPath == joinPath(path, key)
                aExists == key \in DOMAIN x.Object
                bExists == key \in DOMAIN y.Object
                childLoc == Append(loc, <<"key", key>>)
            IN  IF ~aExists
                THEN diffNodes(Nil, y.Object[key], childPath, childLoc, o)
                ELSE IF ~bExists
                THEN diffNodes(x.Object[key], Nil, childPath, childLoc, o)
                ELSE diffNodes(x.Object[key], y.Object[key], childPath,
                               childLoc, o)
    IN  UNION {ConcatRuns([i \in 1..Len(keys) |-> child(keys[i])])
                  : keys \in visitOrders(allKeys, o.StableOrder)}

\* Mutant of diffArrays: the positional loop stops at the end of the shorter
\* array.
diffArrays_common(x, y, path, loc, o) ==
    IF path \in DOMAIN o.ArraySetKeys
    THEN diffArrayAsSet(x, y, path, loc, o, o.ArraySetKeys[path])
    ELSE LET minLen == IF Len(y.Array) < Len(x.Array)
                       THEN Len(y.Array) ELSE Len(x.Array)
             child(i) ==
                 diffNodes(x.Array[i], y.Array[i], indexPath(path, i - 1),
                           Append(loc, <<"idx", i - 1>>), o)
         IN  ConcatRuns([i \in 1..minLen |-> child(i)])

\* diffArrays compares two array nodes.
diffArrays(x, y, path, loc, o) ==
    IF path \in DOMAIN o.ArraySetKeys
    THEN diffArrayAsSet(x, y, path, loc, o, o.ArraySetKeys[path])
    ELSE LET maxLen == IF Len(y.Array) > Len(x.Array)
                       THEN Len(y.Array) ELSE Len(x.Array)
             \* i is the Go index plus one
             child(i) ==
                 diffNodes(IF i <= Len(x.Array) THEN x.Array[i] ELSE Nil,
                           IF i <= Len(y.Array) THEN y.Array[i] ELSE Nil,
                           indexPath(path, i - 1),
                           Append(loc, <<"idx", i - 1>>), o)
         IN  ConcatRuns([i \in 1..maxLen |-> child(i)])

\* diffArrayAsSet compares arrays as sets keyed by a field.
diffArrayAsSet(x, y, path, loc, o, keyField) ==
    LET aMap == elemMap(x.Array, keyField)
        bMap == elemMap(y.Array, keyField)
        allKeys == DOMAIN aMap \cup DOMAIN bMap
        child(key) ==
            LET childPath == setPath(path, keyField, key)
                aExists == key \in DOMAIN aMap
                bExists == key \in DOMAIN bMap
                childLoc == Append(loc, <<"set", keyField, key>>)
            IN  IF ~aExists
                THEN diffNodes(Nil, bMap[key], childPath, childLoc, o)
                ELSE IF ~bExists
                THEN diffNodes(aMap[key], Nil, childPath, childLoc, o)
                ELSE diffNodes(aMap[key], bMap[key], childPath, childLoc, o)
    IN  UNION {ConcatRuns([i \in 1..Len(keys) |-> child(keys[i])])
                  : keys \in visitOrders(allKeys, o.StableOrder)}

-----------------------------------------------------------------------------
(* Diff *)

\* sort.Slice(d.changes, less) with less(i, j) = changes[i].Path <
\* changes[j].Path.  For the slice lengths of the model (at most 12) Go's
\* sort.Slice is its insertion sort: each element in turn is swapped towards
\* the front while it is less than the element before it.
RECURSIVE insertByPath(_, _)
insertByPath(sorted, c) ==
    IF sorted # <<>> /\ StrLess(c.Path, sorted[Len(sorted)].Path)
    THEN Append(insertByPath(SubSeq(sorted, 1, Len(sorted) - 1), c),
                sorted[Len(sorted)])
    ELSE Append(sorted, c)

\* Mutant of sortByPath: the changes are collected in a map keyed by Path
\* and read back in ascending order, one change per Path.
RECURSIVE sortByPath_perPath(_)
sortByPath_perPath(cl) ==
    IF cl = <<>> THEN <<>>
    ELSE LET rest == sortByPath_perPath(SubSeq(cl, 1, Len(cl) - 1))
             c == cl[Len(cl)]
         IN  IF \E i \in 1..Len(rest) : rest[i].Path = c.Path
             THEN rest
             ELSE insertByPath(rest, c)

RECURSIVE sortByPath(_)
sortByPath(cl) ==
    IF cl = <<>> THEN <<>>
    ELSE insertByPath(sortByPath(SubSeq(cl, 1, Len(cl) - 1)), cl[Len(cl)])

\* Mutant of Diff: an absent tree is rejected with an error.
Diff_rejectsNil(x, y, o) ==
    IF x = Nil \/ y = Nil
    THEN {[changes |-> <<>>, err |-> "nil tree"]}
    ELSE {[changes |-> IF o.StableOrder THEN sortByPath(cl) ELSE cl,
           err |-> "nil"] : cl \in diffNodes(x, y, <<"/">>, <<>>, o)}

\* Mutant of Diff: the final sort is left out.
Diff_noSort(x, y, o) ==
    {[changes |-> cl, err |-> "nil"]
        : cl \in diffNodes(x, y, <<"/">>, <<>>, o)}

\* Diff compares two trees and returns the detected changes: the set of
\* (changes, error) results the call can return.
Diff(x, y, o) ==
    {[changes |-> IF o.StableOrder THEN sortByPath(cl) ELSE cl,
      err |-> "nil"] : cl \in diffNodes(x, y, <<"/">>, <<>>, o)}

-----------------------------------------------------------------------------
(* The inputs of a call *)

\* Longest array among the inputs.
MaxLen == 2

ka == <<"a">>
kb == <<"b">>
\* a key that holds the path separator
kab == <<"a", "/", "b">>

StrP == NewString(<<"p">>)
Str1 == NewString(<<"1">>)

ObjectsOver(keys, vals) ==
    {NewObject(m) : m \in UNION {[ks -> vals] : ks \in SUBSET keys}}

ArraysOver(vals, maxLen) ==
    {NewArray(s) : s \in UNION {[1..n -> vals] : n \in 0..maxLen}}

Leaves == {NewNull, NewBool(TRUE), NewNumber(1), NaN, StrP, Str1}

Small == {NewNumber(1), StrP, Str1}

\* objects of scalars
Flat == ObjectsOver({ka, kb}, Small)

\* array elements: a scalar, objects with and without a String at "a"
Elems ==
    {NewNumber(1),
     NewObject(ka :> StrP),
     NewObject(ka :> Str1),
     NewObject(ka :> NewNumber(1)),
     NewObject((ka :> StrP) @@ (kb :> NewNumber(1)))}

Arrays == ArraysOver(Elems, MaxLen)

\* what an object holds under "a" one level down
Inner ==
    {NewObject(kb :> NewNumber(1)), NewObject(kb :> StrP),
     NewArray(<<NewNumber(1)>>), NewArray(<<StrP>>)}

\* objects of containers, with and without the sibling key "a/b"
Nested ==
    {NewObject(ka :> i) : i \in Inner}
        \cup {NewObject((ka :> i) @@ (kab :> s)) :
                  i \in Inner, s \in {NewNumber(1), StrP}}

Trees == Leaves \cup Flat \cup Arrays \cup Nested

Pattern(segs) == <<"/">> \o Join(segs)

star == <<"*">>

IgnoreChoices ==
    {<<>>,
     <<Pattern(<<ka>>)>>,
     <<Pattern(<<ka, star>>)>>,
     <<Pattern(<<star, star, kb>>), Pattern(<<star, kb>>),
       <<"/", "[", "0", "]">>>>}

SetKeyChoices ==
    {<<>>, (<<"/">> :> ka), (<<"/">> :> <<>>)}

CoercionChoices ==
    {[NumericStrings |-> FALSE, BoolStrings |-> FALSE],
     [NumericStrings |-> TRUE, BoolStrings |-> TRUE]}

Options ==
    [IgnorePaths : IgnoreChoices, ArraySetKeys : SetKeyChoices,
     Coercions : CoercionChoices, StableOrder : BOOLEAN]

-----------------------------------------------------------------------------
(* The state machine: one call of Diff *)

\* No call of matchPath on its own is being modelled.
NoMatchCall == argPath = <<>> /\ argPattern = <<>> /\ matched = "none"

\* No interleaved calls are being modelled.
NoCalls == calls = <<>>

\* No patch is being derived or validated.
NoPatch == patch = [ptr |-> "none"] /\ patchErr = "none" /\ validErr = "none"

\* No call of DiffTrees is being modelled.
NoResult == result = "none"

\* No run of the command line is being modelled.
NoCli == cli = <<>>

\* No renderer is being modelled.
NoRender == render = <<>>

\* Only the part of the program a specification names is running.
OnlyDiff == NoPatch /\ NoResult /\ NoCli /\ NoRender

\* A call of Diff about to be made with the given arguments.
Called(x, y, o) ==
    /\ pc = "call"
    /\ a = x
    /\ b = y
    /\ opts = o
    /\ changes = <<>>
    /\ err = "none"
    /\ NoMatchCall
    /\ NoCalls
    /\ OnlyDiff

Init ==
    /\ pc = "call"
    /\ a \in Trees \cup {Nil}
    /\ b \in Trees \cup {Nil}
    /\ opts \in Options
    /\ changes = <<>>
    /\ err = "none"
    /\ NoMatchCall
    /\ NoCalls
    /\ OnlyDiff

\* changes, err := Diff(a, b, opts)
DiffCall ==
    /\ pc = "call"
    /\ \E r \in Diff(a, b, opts) :
          /\ changes' = r.changes
          /\ err' = r.err
    /\ pc' = "done"
    /\ UNCHANGED <<a, b, opts, matchVars, calls, patchVars, result, cli, render>>

Next == DiffCall

Spec == Init /\ [][Next]_vars

-----------------------------------------------------------------------------
(* Vocabulary of the properties *)

Done == pc = "done"

\* The fields of a Change a caller sees.
Public(c) ==
    [Type |-> c.Type, Path |-> c.Path, OldValue |-> c.OldValue,
     NewValue |-> c.NewValue]

PublicList(cl) == [i \in 1..Len(cl) |-> Public(cl[i])]

PublicSet(cl) == {Public(cl[i]) : i \in 1..Len(cl)}

\* P matches some IgnorePaths pattern.
Ignored(P) ==
    \E i \in 1..Len(opts.IgnorePaths) : matchPath(P, opts.IgnorePaths[i])

\* Path syntax: the root is "/", an object member appends "/<key>", an array
\* position "[<index>]", a keyed element "[<keyfield>=<keyvalue>]".
RenderStep(step) ==
    IF step[1] = "key" THEN <<"/">> \o step[2]
    ELSE IF step[1] = "idx" THEN <<"[">> \o Itoa(step[2]) \o <<"]">>
    ELSE <<"[">> \o step[2] \o <<"=">> \o step[3] \o <<"]">>

RECURSIVE RenderSteps(_)
RenderSteps(loc) ==
    IF loc = <<>> THEN <<>>
    ELSE RenderStep(Head(loc)) \o RenderSteps(Tail(loc))

RenderPath(loc) ==
    IF loc = <<>> \/ Head(RenderSteps(loc)) # "/"
    THEN <<"/">> \o RenderSteps(loc)
    ELSE RenderSteps(loc)

Prefix(loc, n) == SubSeq(loc, 1, n)

\* loc2 lies strictly beneath loc1
Beneath(loc1, loc2) ==
    Len(loc2) > Len(loc1) /\ Prefix(loc2, Len(loc1)) = loc1

MalformedOptions(o) ==
    \E p \in DOMAIN o.ArraySetKeys : o.ArraySetKeys[p] = <<>>


-----------------------------------------------------------------------------
(* C1 *)

\* C1: reflexivity.  Diff(a, a, opts) returns an empty change list, for
\* every tree a and every opts.
C1_Reflexivity == (Done /\ a = b) => changes = <<>>

-----------------------------------------------------------------------------
(* C2 *)

HasAdd(cl, P, v) ==
    \E i \in 1..Len(cl) :
        cl[i].Type = ChangeTypeAdd /\ cl[i].Path = P /\ cl[i].NewValue = v

HasRemove(cl, P, v) ==
    \E i \in 1..Len(cl) :
        cl[i].Type = ChangeTypeRemove /\ cl[i].Path = P /\ cl[i].OldValue = v

\* C2: symmetry of detection.  The list Diff(a, b, opts) returned holds an
\* Add at P with NewValue v if and only if every list Diff(b, a, opts) can
\* return holds a Remove at P with OldValue v.
C2_Symmetry ==
    Done =>
        \A r \in Diff(b, a, opts) :
            /\ \A i \in 1..Len(changes) :
                   changes[i].Type = ChangeTypeAdd =>
                       HasRemove(r.changes, changes[i].Path,
                                 changes[i].NewValue)
            /\ \A j \in 1..Len(r.changes) :
                   r.changes[j].Type = ChangeTypeRemove =>
                       HasAdd(changes, r.changes[j].Path,
                              r.changes[j].OldValue)

\* An Add below the root, next to another change.
C2_Witness ==
    /\ Done
    /\ Len(changes) >= 2
    /\ \E i \in 1..Len(changes) :
           changes[i].Type = ChangeTypeAdd /\ changes[i].loc # <<>>

-----------------------------------------------------------------------------
(* C3 *)

\* C3: ignore suppresses whole subtrees.  No returned change lies at a place
\* whose path matches an IgnorePaths pattern, nor at a place beneath one:
\* neither the Path of a change nor the path of any place the traversal
\* passed on the way to it is ignored.
C3_IgnoreSubtree ==
    Done =>
        \A i \in 1..Len(changes) :
            /\ ~Ignored(changes[i].Path)
            /\ \A n \in 0..Len(changes[i].loc) :
                   ~Ignored(RenderPath(Prefix(changes[i].loc, n)))

\* Both sides are objects that differ under the ignored key "a" (in value,
\* in kind or by one side lacking it) and something else is reported.
C3_Witness ==
    /\ Done
    /\ Ignored(<<"/", "a">>)
    /\ a # Nil /\ b # Nil
    /\ a.Kind = KindObject /\ b.Kind = KindObject
    /\ ka \in DOMAIN a.Object \cup DOMAIN b.Object
    /\ \/ ka \notin DOMAIN a.Object \cap DOMAIN b.Object
       \/ a.Object[ka] # b.Object[ka]
    /\ changes # <<>>

-----------------------------------------------------------------------------
(* C4 *)

\* C4: malformed Options fail fast.  With an ArraySetKeys entry whose
\* key-field name is empty, Diff returns an error and no change.
C4_FailFast ==
    (Done /\ MalformedOptions(opts)) => (err # "nil" /\ changes = <<>>)

-----------------------------------------------------------------------------
(* C5 *)

IsChangeList(cl) ==
    /\ DOMAIN cl = 1..Len(cl)
    /\ \A i \in 1..Len(cl) :
           /\ cl[i].Type \in {ChangeTypeAdd, ChangeTypeRemove,
                              ChangeTypeModify, ChangeTypeMove}
           /\ cl[i].Path # <<>>

\* C5: Diff is total.  Every call with well-formed Options (either tree may
\* be absent, the patterns may hold any number of '*') returns: the call can
\* always complete (DiffCall is enabled: Diff has a result to return), and
\* what it returns is a change list and a nil error.
C5_Total ==
    ~MalformedOptions(opts) =>
        /\ pc = "call" => \E r \in Diff(a, b, opts) : TRUE
        /\ Done => (err = "nil" /\ IsChangeList(changes))

\* A call with an absent tree and patterns of one and two '*' has returned.
C5_Witness ==
    /\ Done
    /\ a = Nil /\ b # Nil
    /\ \E i \in 1..Len(opts.IgnorePaths) :
           Cardinality({j \in 1..Len(opts.IgnorePaths[i]) :
                            opts.IgnorePaths[i][j] = "*"}) >= 2
    /\ err = "nil"
    /\ changes # <<>>

-----------------------------------------------------------------------------
(* C6 *)

\* C6: with StableOrder the returned list is sorted by Path in ascending
\* byte-wise order: no entry's Path is less than the Path before it.
C6_SortedByPath ==
    (Done /\ opts.StableOrder) =>
        \A i \in 1..(Len(changes) - 1) :
            ~StrLess(changes[i + 1].Path, changes[i].Path)

\* The traversal appended the changes in another order than the one returned.
C6_Witness ==
    /\ Done /\ opts.StableOrder
    /\ Len(changes) >= 2
    /\ \E cl \in diffNodes(a, b, <<"/">>, <<>>, opts) : cl # changes

-----------------------------------------------------------------------------
(* C7 *)

\* C7: determinism under StableOrder.  With StableOrder every list the call
\* can return, whatever order the maps are ranged over, is the list it did
\* return (Type, Path, OldValue and NewValue of every entry, in order).
C7_Deterministic ==
    (Done /\ opts.StableOrder) =>
        \A r \in Diff(a, b, opts) :
            PublicList(r.changes) = PublicList(changes) /\ r.err = err

\* Without StableOrder the same inputs can give two different lists.
C7_Witness ==
    /\ Done /\ opts.StableOrder
    /\ Len(changes) >= 2
    /\ \E r1, r2 \in Diff(a, b, [opts EXCEPT !.StableOrder = FALSE]) :
           PublicList(r1.changes) # PublicList(r2.changes)

-----------------------------------------------------------------------------
(* C8 *)

\* C8: StableOrder changes only the order.  The list returned without
\* StableOrder, under any iteration order, holds the same set of changes as
\* every list the call returns with StableOrder set.
C8_SameSet ==
    (Done /\ ~opts.StableOrder) =>
        \A r \in Diff(a, b, [opts EXCEPT !.StableOrder = TRUE]) :
            PublicSet(changes) = PublicSet(r.changes)

\* The unsorted list differs from the sorted one as a list.
C8_Witness ==
    /\ Done /\ ~opts.StableOrder
    /\ Len(changes) >= 2
    /\ \E r \in Diff(a, b, [opts EXCEPT !.StableOrder = TRUE]) :
           PublicList(changes) # PublicList(r.changes)

-----------------------------------------------------------------------------
(* The places a comparison reaches, after the algorithm of the             *)
(* specification: the root; below a place that is not ignored and holds an  *)
(* object on both sides, every key of either side; below one that holds an  *)
(* array on both sides, every index of the longer array or, if the path is  *)
(* in ArraySetKeys, every key value of a keyed element of either side.      *)

Member(x, k) == IF k \in DOMAIN x.Object THEN x.Object[k] ELSE Nil

Element(x, i) == IF i < Len(x.Array) THEN x.Array[i + 1] ELSE Nil

\* e is an Object with a String-kind value at field f.
Qualifies(e, f) ==
    /\ e.Kind = KindObject
    /\ f \in DOMAIN e.Object
    /\ e.Object[f].Kind = KindString

KeyValues(x, f) ==
    {x.Array[i].Object[f].Value :
        i \in {j \in 1..Len(x.Array) : Qualifies(x.Array[j], f)}}

\* The element of key value k; of several, the last (which of them is left
\* open by the specification, and the code takes the last).
KeyedElement(x, f, k) ==
    LET holds == {i \in 1..Len(x.Array) :
                     Qualifies(x.Array[i], f) /\ x.Array[i].Object[f].Value = k}
    IN  IF holds = {} THEN Nil
        ELSE x.Array[CHOOSE i \in holds : \A j \in holds : j <= i]

LongerLen(x, y) ==
    IF Len(x.Array) > Len(y.Array) THEN Len(x.Array) ELSE Len(y.Array)

RECURSIVE Compared(_, _, _)
Compared(x, y, loc) ==
    {[loc |-> loc, old |-> x, new |-> y]} \cup
    IF Ignored(RenderPath(loc)) \/ x = Nil \/ y = Nil THEN {}
    ELSE IF x.Kind # y.Kind THEN {}
    ELSE IF x.Kind = KindObject
    THEN UNION {Compared(Member(x, k), Member(y, k),
                         Append(loc, <<"key", k>>))
                   : k \in DOMAIN x.Object \cup DOMAIN y.Object}
    ELSE IF x.Kind = KindArray /\ RenderPath(loc) \in DOMAIN opts.ArraySetKeys
    THEN LET f == opts.ArraySetKeys[RenderPath(loc)]
         IN  UNION {Compared(KeyedElement(x, f, k), KeyedElement(y, f, k),
                             Append(loc, <<"set", f, k>>))
                       : k \in KeyValues(x, f) \cup KeyValues(y, f)}
    ELSE IF x.Kind = KindArray
    THEN UNION {Compared(Element(x, i), Element(y, i),
                         Append(loc, <<"idx", i>>))
                   : i \in 0..(LongerLen(x, y) - 1)}
    ELSE {}

ChangesAt(loc) == {i \in 1..Len(changes) : changes[i].loc = loc}

\* Exactly one change is returned for the place loc, it is c, and none is
\* returned for a place beneath loc.
OnlyChange(loc, c) ==
    /\ Cardinality(ChangesAt(loc)) = 1
    /\ \A i \in ChangesAt(loc) : Public(changes[i]) = c
    /\ \A i \in 1..Len(changes) : ~Beneath(loc, changes[i].loc)

-----------------------------------------------------------------------------
(* C9 *)

\* C9: absence handling.  At every place the comparison reaches that is not
\* ignored and where exactly one side is absent, exactly one change is
\* returned: an Add carrying the whole new subtree if the old side is absent,
\* a Remove carrying the whole old subtree if the new side is; nothing is
\* returned beneath it; and with both trees absent nothing is returned.
C9_Absence ==
    Done =>
        /\ (a = Nil /\ b = Nil) => changes = <<>>
        /\ \A v \in Compared(a, b, <<>>) :
               (~Ignored(RenderPath(v.loc)) /\ (v.old = Nil) # (v.new = Nil))
                   => OnlyChange(v.loc,
                          [Type |-> IF v.old = Nil THEN ChangeTypeAdd
                                    ELSE ChangeTypeRemove,
                           Path |-> RenderPath(v.loc),
                           OldValue |-> v.old, NewValue |-> v.new])

\* A keyed element that is an object of two members is on the new side
\* only, and another change is returned beside its Add.
C9_Witness ==
    /\ Done
    /\ \E v \in Compared(a, b, <<>>) :
           /\ v.loc # <<>> /\ v.loc[Len(v.loc)][1] = "set"
           /\ ~Ignored(RenderPath(v.loc))
           /\ v.old = Nil /\ v.new # Nil
           /\ Cardinality(DOMAIN v.new.Object) = 2
    /\ Len(changes) >= 2

-----------------------------------------------------------------------------
(* C10 *)

\* The coercion rule of the specification: a String that parses as a number
\* equal to the Number, under NumericStrings; the String "true" or "false"
\* matching the Bool, under BoolStrings.
CoercedEqualOneWay(s, n) ==
    \/ /\ opts.Coercions.NumericStrings
       /\ s.Kind = KindString /\ n.Kind = KindNumber
       /\ ParseFloat(s.Value).ok
       /\ FloatEq(ParseFloat(s.Value).num, n.Value)
    \/ /\ opts.Coercions.BoolStrings
       /\ s.Kind = KindString /\ n.Kind = KindBool
       /\ \/ s.Value = <<"t", "r", "u", "e">> /\ n.Value = TRUE
          \/ s.Value = <<"f", "a", "l", "s", "e">> /\ n.Value = FALSE

CoercedEqual(x, y) == CoercedEqualOneWay(x, y) \/ CoercedEqualOneWay(y, x)

\* C10: kind mismatch.  At every place the comparison reaches that is not
\* ignored and where both sides are present with different kinds that no
\* enabled coercion proves equal, exactly one change is returned, a Modify
\* carrying the two whole nodes, and nothing is returned beneath it.
C10_KindMismatch ==
    Done =>
        \A v \in Compared(a, b, <<>>) :
            (/\ ~Ignored(RenderPath(v.loc))
             /\ v.old # Nil /\ v.new # Nil
             /\ v.old.Kind # v.new.Kind
             /\ ~CoercedEqual(v.old, v.new))
                => OnlyChange(v.loc,
                       [Type |-> ChangeTypeModify,
                        Path |-> RenderPath(v.loc),
                        OldValue |-> v.old, NewValue |-> v.new])

\* An object against an array below the root, with coercions enabled.
C10_Witness ==
    /\ Done
    /\ opts.Coercions.NumericStrings
    /\ \E v \in Compared(a, b, <<>>) :
           /\ v.loc # <<>>
           /\ ~Ignored(RenderPath(v.loc))
           /\ v.old # Nil /\ v.new # Nil
           /\ v.old.Kind = KindObject /\ v.new.Kind = KindArray
    /\ Len(changes) >= 2

-----------------------------------------------------------------------------
(* Calls of Diff on scalars, for the coercion rules *)

CoerceStrings ==
    {<<>>, <<"1">>, <<"2">>, <<"0", "1">>, <<"1", "0">>, <<"1", "e", "1">>,
     <<"1", "e">>, <<"p">>, TextTrue, TextFalse, <<"T", "r", "u", "e">>,
     <<"y", "e", "s">>}

CoerceScalars ==
    {NewString(t) : t \in CoerceStrings}
        \cup {NewNumber(0), NewNumber(1), NewNumber(2), NewNumber(10), NaN}
        \cup {NewBool(TRUE), NewBool(FALSE)}

\* a scalar as the root, as the member "a" of an object, as the one element
\* of an array
CoerceTrees ==
    CoerceScalars
        \cup {NewObject(ka :> v) : v \in CoerceScalars}
        \cup {NewArray(<<v>>) : v \in CoerceScalars}

CoerceOptions ==
    [IgnorePaths : {<<>>, <<Pattern(<<ka>>)>>}, ArraySetKeys : {<<>>},
     Coercions : [NumericStrings : BOOLEAN, BoolStrings : BOOLEAN],
     StableOrder : {FALSE}]

CoerceInit ==
    \E x, y \in CoerceTrees, o \in CoerceOptions : Called(x, y, o)

CoerceSpec == CoerceInit /\ [][Next]_vars

\* A place the comparison reaches, not ignored, where the two sides are
\* present with the kinds k1 and k2 in either order.
KindsMeet(v, k1, k2) ==
    /\ ~Ignored(RenderPath(v.loc))
    /\ v.old # Nil /\ v.new # Nil
    /\ \/ v.old.Kind = k1 /\ v.new.Kind = k2
       \/ v.old.Kind = k2 /\ v.new.Kind = k1

\* Of the two sides of v, the one of kind k.
SideOfKind(v, k) == IF v.old.Kind = k THEN v.old ELSE v.new

NoChangeAt(loc) == ChangesAt(loc) = {}

OneModify(v) ==
    OnlyChange(v.loc,
               [Type |-> ChangeTypeModify, Path |-> RenderPath(v.loc),
                OldValue |-> v.old, NewValue |-> v.new])

-----------------------------------------------------------------------------
(* C11 *)

\* The String parses as a number and the number parsed is the Number's
\* value (IEEE-754 equality).
ParsesEqual(str, num) ==
    /\ ParseFloat(str.Value).ok
    /\ FloatEq(ParseFloat(str.Value).num, num.Value)

\* C11: numeric-string coercion.  Where a String and a Number meet at one
\* path, in either order, no change is returned if NumericStrings is enabled
\* and the String parses as a number equal to the Number's value; otherwise
\* (the String does not parse, parses to another value, or NumericStrings is
\* disabled) exactly one Modify is returned at that path, and the call
\* returns no error.
C11_NumericStrings ==
    Done =>
        /\ err = "nil"
        /\ \A v \in Compared(a, b, <<>>) :
               KindsMeet(v, KindString, KindNumber) =>
                   IF /\ opts.Coercions.NumericStrings
                      /\ ParsesEqual(SideOfKind(v, KindString),
                                     SideOfKind(v, KindNumber))
                   THEN NoChangeAt(v.loc)
                   ELSE OneModify(v)

\* A Number on the old side and, on the new side, a String that is not the
\* decimal text of the Number but parses to it ("01", "1e1"): nothing is
\* returned.
C11_Witness ==
    /\ Done
    /\ opts.Coercions.NumericStrings /\ ~opts.Coercions.BoolStrings
    /\ \E v \in Compared(a, b, <<>>) :
           /\ KindsMeet(v, KindString, KindNumber)
           /\ v.old.Kind = KindNumber
           /\ ParsesEqual(v.new, v.old)
           /\ v.new.Value # Itoa(v.old.Value.v)
    /\ changes = <<>>

-----------------------------------------------------------------------------
(* C12 *)

\* The String is the literal "true" or "false" that names the Bool's value.
LiteralOf(str, bool) ==
    \/ str.Value = TextTrue /\ bool.Value = TRUE
    \/ str.Value = TextFalse /\ bool.Value = FALSE

\* C12: bool-string coercion.  Where a String and a Bool meet at one path,
\* in either order, no change is returned if BoolStrings is enabled and the
\* String is exactly "true" with the Bool true or exactly "false" with the
\* Bool false; otherwise exactly one Modify is returned.  The toggles are
\* independent: the outcome for a String and a Bool does not depend on
\* NumericStrings, and with NumericStrings disabled a String and a Number
\* give one Modify whatever BoolStrings is.
C12_BoolStrings ==
    Done =>
        \A v \in Compared(a, b, <<>>) :
            /\ KindsMeet(v, KindString, KindBool) =>
                   IF /\ opts.Coercions.BoolStrings
                      /\ LiteralOf(SideOfKind(v, KindString),
                                   SideOfKind(v, KindBool))
                   THEN NoChangeAt(v.loc)
                   ELSE OneModify(v)
            /\ (KindsMeet(v, KindString, KindNumber)
                   /\ ~opts.Coercions.NumericStrings) => OneModify(v)

\* With BoolStrings alone, "false" against the Bool false gives nothing.
C12_Witness ==
    /\ Done
    /\ opts.Coercions.BoolStrings /\ ~opts.Coercions.NumericStrings
    /\ \E v \in Compared(a, b, <<>>) :
           /\ KindsMeet(v, KindString, KindBool)
           /\ v.old.Kind = KindBool /\ v.old.Value = FALSE
           /\ v.new.Value = TextFalse
    /\ changes = <<>>

-----------------------------------------------------------------------------
(* Calls of Diff on arrays at the root *)

\* Longest array among the inputs of ArraySpec.
MaxElems == 2

StrEmpty == NewString(<<>>)

\* a scalar and objects with a String at "a": one of them empty, two of
\* them the same, one beside a NaN
ArrayElems ==
    {NewNumber(1),
     NewObject(ka :> StrP),
     NewObject(ka :> StrEmpty),
     NewObject((ka :> Str1) @@ (kb :> NaN)),
     NewObject((ka :> StrP) @@ (kb :> NewNumber(1)))}

ArrayOptions ==
    [IgnorePaths : {<<>>,
                    <<<<"/", "[", "1", "]">>,
                      <<"/", "[", "a", "=", "p", "]", "/", "b">>>>},
     ArraySetKeys : {<<>>, (<<"/">> :> ka)},
     Coercions : {[NumericStrings |-> FALSE, BoolStrings |-> FALSE]},
     StableOrder : BOOLEAN]

ArrayInit ==
    \E x, y \in ArraysOver(ArrayElems, MaxElems), o \in ArrayOptions :
        Called(x, y, o)

ArraySpec == ArrayInit /\ [][Next]_vars

\* The changes returned for the place loc and the places beneath it.
ChangesWithin(loc) ==
    {Public(changes[i]) :
        i \in {j \in 1..Len(changes) :
                  changes[j].loc = loc \/ Beneath(loc, changes[j].loc)}}

\* The changes returned within loc are those of comparing x with y there.
ComparedAs(x, y, loc) ==
    \E cl \in diffNodes(x, y, RenderPath(loc), loc, opts) :
        ChangesWithin(loc) = PublicSet(cl)

\* A place the comparison reaches, not ignored, with an array on both sides.
ArraysMeet(v) ==
    /\ ~Ignored(RenderPath(v.loc))
    /\ v.old # Nil /\ v.new # Nil
    /\ v.old.Kind = KindArray /\ v.new.Kind = KindArray

Marked(v) == RenderPath(v.loc) \in DOMAIN opts.ArraySetKeys

\* The step below loc on the way to a change beneath loc.
StepsBelow(loc) ==
    {changes[i].loc[Len(loc) + 1] :
        i \in {j \in 1..Len(changes) : Beneath(loc, changes[j].loc)}}

-----------------------------------------------------------------------------
(* C13 *)

\* C13: positional arrays.  Where two arrays meet at a path that has no
\* ArraySetKeys entry, every index i below the length of the longer array is
\* compared at '<parent>[i]' (unless that path is ignored): an index past
\* the end of the old array gives exactly one Add carrying b[i], one past
\* the end of the new array exactly one Remove carrying a[i], and an index
\* of both gives the changes of comparing a[i] with b[i]; no change is
\* returned beneath the array for anything but these indices.
C13_Positional ==
    Done =>
        \A v \in Compared(a, b, <<>>) :
            (ArraysMeet(v) /\ ~Marked(v)) =>
                /\ \A i \in 0..(LongerLen(v.old, v.new) - 1) :
                       LET at == Append(v.loc, <<"idx", i>>)
                           P == RenderPath(v.loc) \o <<"[">> \o Itoa(i)
                                    \o <<"]">>
                       IN  ~Ignored(P) =>
                               IF i >= Len(v.old.Array)
                               THEN OnlyChange(at,
                                        [Type |-> ChangeTypeAdd, Path |-> P,
                                         OldValue |-> Nil,
                                         NewValue |-> v.new.Array[i + 1]])
                               ELSE IF i >= Len(v.new.Array)
                               THEN OnlyChange(at,
                                        [Type |-> ChangeTypeRemove, Path |-> P,
                                         OldValue |-> v.old.Array[i + 1],
                                         NewValue |-> Nil])
                               ELSE ComparedAs(v.old.Array[i + 1],
                                               v.new.Array[i + 1], at)
                /\ StepsBelow(v.loc) \subseteq
                       {<<"idx", i>> : i \in 0..(LongerLen(v.old, v.new) - 1)}

\* The new array is the old one with an element put in front: the shared
\* index holds different elements and the last index is an Add of the
\* element that was at the index before.
C13_Witness ==
    /\ Done
    /\ a # Nil /\ b # Nil
    /\ a.Kind = KindArray /\ b.Kind = KindArray
    /\ opts.ArraySetKeys = <<>> /\ opts.IgnorePaths = <<>>
    /\ Len(a.Array) >= 1 /\ Len(b.Array) = Len(a.Array) + 1
    /\ \A i \in 1..Len(a.Array) : b.Array[i + 1] = a.Array[i]
    /\ b.Array[1] # a.Array[1]
    /\ \E i \in 1..Len(changes) :
           /\ changes[i].Type = ChangeTypeAdd
           /\ changes[i].loc = <<<<"idx", Len(a.Array)>>>>
    /\ Len(changes) >= 2

-----------------------------------------------------------------------------
(* C14 *)

\* The elements of the array x that are Objects with the String k at field f.
Holders(x, f, k) ==
    {x.Array[i] :
        i \in {j \in 1..Len(x.Array) :
                  Qualifies(x.Array[j], f) /\ x.Array[j].Object[f].Value = k}}

\* C14: keyed-set membership.  Where two arrays meet at a path marked in
\* ArraySetKeys with key field f, every element that is an Object with a
\* String at f is compared under its key value k at '<parent>[f=k]' (unless
\* that path is ignored): if the other side has no element of key k,
\* exactly one Remove or Add carrying the element is returned, else the
\* changes of comparing the two elements of key k; and no change is returned
\* beneath the array for anything but the key values of such elements (the
\* other elements contribute nothing).  Of several elements of one key on
\* one side, any may be the one compared.
C14_KeyedMembership ==
    Done =>
        \A v \in Compared(a, b, <<>>) :
            (ArraysMeet(v) /\ Marked(v)) =>
                LET f == opts.ArraySetKeys[RenderPath(v.loc)]
                    keys == KeyValues(v.old, f) \cup KeyValues(v.new, f)
                IN  /\ \A k \in keys :
                           LET at == Append(v.loc, <<"set", f, k>>)
                               P == RenderPath(v.loc) \o <<"[">> \o f
                                        \o <<"=">> \o k \o <<"]">>
                               olds == Holders(v.old, f, k)
                               news == Holders(v.new, f, k)
                           IN  ~Ignored(P) =>
                                   IF news = {}
                                   THEN \E e \in olds :
                                            OnlyChange(at,
                                                [Type |-> ChangeTypeRemove,
                                                 Path |-> P, OldValue |-> e,
                                                 NewValue |-> Nil])
                                   ELSE IF olds = {}
                                   THEN \E e \in news :
                                            OnlyChange(at,
                                                [Type |-> ChangeTypeAdd,
                                                 Path |-> P, OldValue |-> Nil,
                                                 NewValue |-> e])
                                   ELSE \E x \in olds, y \in news :
                                            ComparedAs(x, y, at)
                    /\ StepsBelow(v.loc) \subseteq
                           {<<"set", f, k>> : k \in keys}

-----------------------------------------------------------------------------
(* C15 *)

\* Every element of the array x is an Object with a String at field f, and
\* no two elements have the same key value.
DistinctlyKeyed(x, f) ==
    /\ \A i \in 1..Len(x.Array) : Qualifies(x.Array[i], f)
    /\ \A i, j \in 1..Len(x.Array) :
           x.Array[i].Object[f].Value = x.Array[j].Object[f].Value => i = j

\* The arrays that hold the elements of x in some order.
Reorderings(x) ==
    {NewArray([i \in 1..Len(x.Array) |-> x.Array[order[i]]]) :
        order \in Enumerations(1..Len(x.Array))}

\* s starts with t
StartsWith(s, t) == Len(s) >= Len(t) /\ SubSeq(s, 1, Len(t)) = t

\* Two root arrays marked in ArraySetKeys (here with key field "a"), all
\* of whose elements are distinctly keyed, have been compared.
KeyedCase ==
    /\ Done
    /\ a # Nil /\ b # Nil
    /\ a.Kind = KindArray /\ b.Kind = KindArray
    /\ <<"/">> \in DOMAIN opts.ArraySetKeys
    /\ ~Ignored(<<"/">>)
    /\ DistinctlyKeyed(a, opts.ArraySetKeys[<<"/">>])
    /\ DistinctlyKeyed(b, opts.ArraySetKeys[<<"/">>])

\* Whatever order the elements of either array are put in, every list Diff
\* can return holds the changes that were returned.
PermutationInvariant ==
    \A x \in Reorderings(a), y \in Reorderings(b) :
        \A r \in Diff(x, y, opts) : PublicSet(r.changes) = PublicSet(changes)

\* Every change is returned for a key value k of an element, at the path
\* '/[f=k]' or at a path that continues it with '/'.
AtKeyedPaths ==
    LET f == opts.ArraySetKeys[<<"/">>]
    IN  \A i \in 1..Len(changes) :
            \E k \in KeyValues(a, f) \cup KeyValues(b, f) :
                /\ changes[i].loc[1] = <<"set", f, k>>
                /\ \/ changes[i].Path = setPath(<<"/">>, f, k)
                   \/ StartsWith(changes[i].Path,
                                 setPath(<<"/">>, f, k) \o <<"/">>)

\* C15: keyed arrays are position-independent.  For two root arrays marked
\* in ArraySetKeys whose elements are Objects with a String at the key field
\* and pairwise distinct key values: the set of changes is the same however
\* the elements of either array are ordered; if the new array holds the
\* elements of the old one in another order, no change is returned; and
\* every change is at '/[f=k]' or beneath it.
C15_PositionIndependent ==
    KeyedCase =>
        /\ PermutationInvariant
        /\ (b \in Reorderings(a) /\ b # a) => changes = <<>>
        /\ AtKeyedPaths

-----------------------------------------------------------------------------
(* Calls of matchPath *)

\* Most segments in a path or a pattern of MatchSpec.
MaxSegs == 3

SegsOver(segs, maxSegs) == UNION {[1..n -> segs] : n \in 0..maxSegs}

\* Paths as Diff writes them: "/" and then the keys, which may be empty.
MatchPaths == {Pattern(segs) : segs \in SegsOver({ka, kb, <<>>}, MaxSegs)}

\* Patterns: the same, with '*' among the segments.
MatchPatterns ==
    {Pattern(segs) : segs \in SegsOver({ka, kb, <<>>, star}, MaxSegs)}

NoOptions ==
    [IgnorePaths |-> <<>>, ArraySetKeys |-> <<>>,
     Coercions |-> [NumericStrings |-> FALSE, BoolStrings |-> FALSE],
     StableOrder |-> FALSE]

MatchInit ==
    /\ pc = "match"
    /\ argPath \in MatchPaths
    /\ argPattern \in MatchPatterns
    /\ matched = "none"
    /\ a = Nil /\ b = Nil /\ opts = NoOptions
    /\ changes = <<>> /\ err = "none"
    /\ NoCalls
    /\ OnlyDiff

\* matched := matchPath(argPath, argPattern)
MatchCall ==
    /\ pc = "match"
    /\ matched' = matchPath(argPath, argPattern)
    /\ pc' = "matched"
    /\ UNCHANGED <<a, b, opts, changes, err, argPath, argPattern, calls>>
    /\ UNCHANGED <<patchVars, result, cli, render>>

MatchNext == MatchCall

MatchSpec == MatchInit /\ [][MatchNext]_vars

Matched == pc = "matched"

\* The '/'-separated segments of a path or pattern.  The '/' at the start
\* and '/' at the end delimit nothing: "/" has no segment, "/a" and "/a/"
\* have the one segment "a", "/a//b" has the three segments "a", "", "b".
Segments(text) == IF Trim(text) = <<>> THEN <<>> ELSE Split(Trim(text))

IsPrefixOf(s, t) == Len(s) <= Len(t) /\ SubSeq(t, 1, Len(s)) = s

Front(s) == SubSeq(s, 1, Len(s) - 1)

-----------------------------------------------------------------------------
(* C16 *)

\* The pattern is '<prefix>/*' for a prefix of literal segments.
TrailingWildcard(segs) ==
    /\ segs # <<>>
    /\ segs[Len(segs)] = star
    /\ \A i \in 1..(Len(segs) - 1) : segs[i] # star

\* C16: trailing wildcard.  A pattern '<prefix>/*' whose prefix holds no
\* '*' matches a path if and only if the path's segments begin with the
\* segments of the prefix: the path <prefix> itself and every path that
\* extends it, and no path whose leading segments differ.
C16_TrailingWildcard ==
    (Matched /\ TrailingWildcard(Segments(argPattern))) =>
        (matched <=>
             IsPrefixOf(Front(Segments(argPattern)), Segments(argPath)))

\* '/a/b/*' against '/a/b', the prefix itself.
C16_Witness ==
    /\ Matched
    /\ TrailingWildcard(Segments(argPattern))
    /\ Len(Segments(argPattern)) = 3
    /\ Segments(argPath) = Front(Segments(argPattern))
    /\ matched = TRUE

-----------------------------------------------------------------------------
(* C17 *)

\* The matching the specification describes: a literal segment takes one
\* equal path segment, a '*' that is the last segment of the pattern takes
\* all the segments that are left (none, too), a '*' elsewhere takes one or
\* more.
RECURSIVE Assignable(_, _)
Assignable(pathSegs, patternSegs) ==
    IF patternSegs = <<>> THEN pathSegs = <<>>
    ELSE IF Head(patternSegs) = star
         THEN IF Len(patternSegs) = 1 THEN TRUE
              ELSE \E n \in 1..Len(pathSegs) :
                       Assignable(SubSeq(pathSegs, n + 1, Len(pathSegs)),
                                  Tail(patternSegs))
    ELSE /\ pathSegs # <<>>
         /\ Head(pathSegs) = Head(patternSegs)
         /\ Assignable(Tail(pathSegs), Tail(patternSegs))

\* The pattern has a '*' that is not its last segment.
EmbeddedWildcard(segs) == \E i \in 1..(Len(segs) - 1) : segs[i] = star

\* C17: embedded wildcard.  A pattern with a '*' that is not its last
\* segment matches a path only if the segments of the path can be assigned
\* to the segments of the pattern with at least one segment for each '*'
\* that is not the last, and matches every path for which they can.
C17_EmbeddedWildcard ==
    (Matched /\ EmbeddedWildcard(Segments(argPattern))) =>
        (matched <=> Assignable(Segments(argPath), Segments(argPattern)))

-----------------------------------------------------------------------------
(* C18 *)

\* C18: exact patterns.  A pattern without '*' matches a path if and only
\* if the two have the same segments: the same number of them, each equal.
C18_ExactPattern ==
    (Matched /\ ~ContainsStar(argPattern)) =>
        (matched <=> Segments(argPath) = Segments(argPattern))

\* '/a/b' against '/a/b/a', which extends it, and against '/a', its prefix:
\* no match.
C18_Witness ==
    /\ Matched
    /\ ~ContainsStar(argPattern)
    /\ Len(Segments(argPattern)) = 2
    /\ \/ /\ IsPrefixOf(Segments(argPattern), Segments(argPath))
          /\ Len(Segments(argPath)) = 3
       \/ /\ IsPrefixOf(Segments(argPath), Segments(argPattern))
          /\ Len(Segments(argPath)) = 1
    /\ matched = FALSE

-----------------------------------------------------------------------------
(* C19 *)

Present(node) == node # Nil

\* C19: shape of every returned Change.  Its Type is Add, Remove or Modify,
\* never Move; an Add has no OldValue and has a NewValue, a Remove has an
\* OldValue and no NewValue, a Modify has both; its Path is not empty and
\* begins with '/'.
C19_ChangeShape ==
    Done =>
        \A i \in 1..Len(changes) :
            LET c == changes[i]
            IN  /\ c.Type \in {ChangeTypeAdd, ChangeTypeRemove,
                                ChangeTypeModify}
                /\ c.Type # ChangeTypeMove
                /\ c.Type = ChangeTypeAdd =>
                       (~Present(c.OldValue) /\ Present(c.NewValue))
                /\ c.Type = ChangeTypeRemove =>
                       (Present(c.OldValue) /\ ~Present(c.NewValue))
                /\ c.Type = ChangeTypeModify =>
                       (Present(c.OldValue) /\ Present(c.NewValue))
                /\ c.Path # <<>>
                /\ Head(c.Path) = "/"

\* One call returned an Add, a Remove and a Modify, the Modify for two
\* scalars of one kind.
C19_Witness ==
    /\ Done
    /\ \E i, j, k \in 1..Len(changes) :
           /\ changes[i].Type = ChangeTypeAdd
           /\ changes[j].Type = ChangeTypeRemove
           /\ changes[k].Type = ChangeTypeModify
           /\ changes[k].OldValue.Kind = changes[k].NewValue.Kind

-----------------------------------------------------------------------------
(* Concurrent calls of Diff.  calls[p] is the p-th call: its arguments a, b  *)
(* and opts, its differ's changes, the diffNodes calls it has still to make  *)
(* (stack, the next one first) and, once it has returned, its result.  One   *)
(* step of a call is one activation of diffNodes up to the calls it makes.   *)

\* Most calls running at once.
NumCalls == 2

Frame(x, y, path, loc) == [x |-> x, y |-> y, path |-> path, loc |-> loc]

\* The diffNodes calls diffObjects makes, in order, for each order of keys.
objectCalls(x, y, path, loc, o) ==
    LET allKeys == DOMAIN x.Object \cup DOMAIN y.Object
        child(key) ==
            Frame(IF key \in DOMAIN x.Object THEN x.Object[key] ELSE Nil,
                  IF key \in DOMAIN y.Object THEN y.Object[key] ELSE Nil,
                  joinPath(path, key), Append(loc, <<"key", key>>))
    IN  {[i \in 1..Len(keys) |-> child(keys[i])]
            : keys \in visitOrders(allKeys, o.StableOrder)}

\* The diffNodes calls diffArrayAsSet makes.
setCalls(x, y, path, loc, o, keyField) ==
    LET aMap == elemMap(x.Array, keyField)
        bMap == elemMap(y.Array, keyField)
        allKeys == DOMAIN aMap \cup DOMAIN bMap
        child(key) ==
            Frame(IF key \in DOMAIN aMap THEN aMap[key] ELSE Nil,
                  IF key \in DOMAIN bMap THEN bMap[key] ELSE Nil,
                  setPath(path, keyField, key),
                  Append(loc, <<"set", keyField, key>>))
    IN  {[i \in 1..Len(keys) |-> child(keys[i])]
            : keys \in visitOrders(allKeys, o.StableOrder)}

\* The diffNodes calls diffArrays makes.
arrayCalls(x, y, path, loc, o) ==
    IF path \in DOMAIN o.ArraySetKeys
    THEN setCalls(x, y, path, loc, o, o.ArraySetKeys[path])
    ELSE LET maxLen == IF Len(y.Array) > Len(x.Array)
                       THEN Len(y.Array) ELSE Len(x.Array)
         IN  {[i \in 1..maxLen |->
                  Frame(IF i <= Len(x.Array) THEN x.Array[i] ELSE Nil,
                        IF i <= Len(y.Array) THEN y.Array[i] ELSE Nil,
                        indexPath(path, i - 1),
                        Append(loc, <<"idx", i - 1>>))]}

\* One activation of diffNodes: the changes it adds itself and the calls
\* it makes.
diffNodesStep(f, o) ==
    LET leaf(cl) == {[added |-> cl, made |-> <<>>]}
    IN  IF shouldIgnore(f.path, o) THEN leaf(<<>>)
        ELSE IF f.x = Nil /\ f.y = Nil THEN leaf(<<>>)
        ELSE IF f.x = Nil \/ f.y = Nil
             THEN leaf(absentChange(f.x, f.y, f.path, f.loc))
        ELSE IF f.x.Kind # f.y.Kind
             THEN leaf(kindMismatch(f.x, f.y, f.path, f.loc, o))
        ELSE IF f.x.Kind = KindNull THEN leaf(<<>>)
        ELSE IF f.x.Kind \in {KindBool, KindNumber, KindString}
             THEN leaf(scalarChange(f.x, f.y, f.path, f.loc))
        ELSE IF f.x.Kind = KindObject
             THEN {[added |-> <<>>, made |-> m]
                      : m \in objectCalls(f.x, f.y, f.path, f.loc, o)}
        ELSE {[added |-> <<>>, made |-> m]
                 : m \in arrayCalls(f.x, f.y, f.path, f.loc, o)}

\* Mutant of addChange: the changes are kept in one slice that all calls
\* append to.
addChange_shared(cs, p, cl) ==
    [q \in DOMAIN cs |-> [cs[q] EXCEPT !.changes = @ \o cl]]

\* addChange adds a change to the list: the differ of call p appends the
\* changes cl (none or one) to its own d.changes.
addChange(cs, p, cl) == [cs EXCEPT ![p].changes = @ \o cl]

\* d := &differ{opts, changes: make([]Change, 0)}, about to call
\* d.diffNodes(a, b, "/")
NewCall(x, y, o) ==
    [a |-> x, b |-> y, opts |-> o, changes |-> <<>>,
     stack |-> <<Frame(x, y, <<"/">>, <<>>)>>,
     state |-> "running", result |-> <<>>]

\* pairs of trees: objects and arrays that differ in two places, an object
\* against an array, an absent old tree
ConcPairs ==
    {<<NewObject((ka :> NewNumber(1)) @@ (kb :> StrP)), NewObject(ka :> StrP)>>,
     <<NewArray(<<StrP>>), NewArray(<<NewNumber(1), StrP>>)>>,
     <<NewObject(ka :> StrP), NewArray(<<StrP>>)>>,
     <<Nil, NewObject(ka :> StrP)>>}

ConcOptions ==
    [IgnorePaths : {<<>>}, ArraySetKeys : {<<>>},
     Coercions : {[NumericStrings |-> FALSE, BoolStrings |-> FALSE]},
     StableOrder : BOOLEAN]

ConcInit ==
    /\ pc = "calls"
    /\ a = Nil /\ b = Nil /\ opts = NoOptions
    /\ changes = <<>> /\ err = "none"
    /\ NoMatchCall
    /\ OnlyDiff
    /\ calls \in [1..NumCalls ->
                     {NewCall(t[1], t[2], o) : t \in ConcPairs,
                                               o \in ConcOptions}]

\* Call p runs its next activation of diffNodes.
DiffNodesStep(p) ==
    /\ calls[p].state = "running"
    /\ calls[p].stack # <<>>
    /\ \E s \in diffNodesStep(Head(calls[p].stack), calls[p].opts) :
           calls' = [addChange(calls, p, s.added) EXCEPT
                        ![p].stack = s.made \o Tail(calls[p].stack)]
    /\ UNCHANGED <<diffVars, matchVars, patchVars, result, cli, render>>

\* Call p has left d.diffNodes(a, b, "/"): it sorts if StableOrder is set
\* and returns d.changes.
DiffReturn(p) ==
    /\ calls[p].state = "running"
    /\ calls[p].stack = <<>>
    /\ calls' = [calls EXCEPT
                    ![p].state = "returned",
                    ![p].result = IF calls[p].opts.StableOrder
                                  THEN sortByPath(calls[p].changes)
                                  ELSE calls[p].changes]
    /\ UNCHANGED <<diffVars, matchVars, patchVars, result, cli, render>>

ConcNext == \E p \in 1..NumCalls : DiffNodesStep(p) \/ DiffReturn(p)

ConcSpec == ConcInit /\ [][ConcNext]_vars

-----------------------------------------------------------------------------
(* C20 *)

\* C20: concurrent use.  However the steps of the calls interleave, the
\* list a call returns is a list Diff returns for the same arguments when
\* the call runs alone (with StableOrder, the one list).
C20_NoInterference ==
    \A p \in DOMAIN calls :
        calls[p].state = "returned" =>
            \E r \in Diff(calls[p].a, calls[p].b, calls[p].opts) :
                r.changes = calls[p].result

\* The first call has returned two changes while the second, on the same
\* trees, has added one change and has activations of diffNodes left.
C20_Witness ==
    /\ calls # <<>>
    /\ calls[1].state = "returned" /\ Len(calls[1].result) = 2
    /\ calls[2].state = "running"
    /\ calls[2].a = calls[1].a /\ calls[2].b = calls[1].b
    /\ Len(calls[2].changes) = 1 /\ calls[2].stack # <<>>

-----------------------------------------------------------------------------
(* Package patch: deriving a patch from a change list *)

\* a plain Go value (interface{}): nil, bool, float64, string,
\* map[string]interface{} or []interface{}
GoNil == [go |-> "nil"]

RECURSIVE nodeToValue(_)
\* nodeToValue converts a tree node to a plain Go value: the value and the
\* error.  The map and the slice are filled child by child and the first
\* child that fails fails the whole conversion.
nodeToValue(node) ==
    IF node = Nil THEN [value |-> GoNil, err |-> "nil"]
    ELSE IF node.Kind = KindNull THEN [value |-> GoNil, err |-> "nil"]
    ELSE IF node.Kind = KindBool
        THEN [value |-> [go |-> "bool", v |-> node.Value], err |-> "nil"]
    ELSE IF node.Kind = KindNumber
        THEN [value |-> [go |-> "float64", v |-> node.Value], err |-> "nil"]
    ELSE IF node.Kind = KindString
        THEN [value |-> [go |-> "string", v |-> node.Value], err |-> "nil"]
    ELSE IF node.Kind = KindObject
        THEN LET conv == [k \in DOMAIN node.Object |->
                             nodeToValue(node.Object[k])]
             IN  IF \E k \in DOMAIN conv : conv[k].err # "nil"
                 THEN [value |-> GoNil, err |-> "unknown node kind"]
                 ELSE [value |-> [go |-> "map",
                                  m |-> [k \in DOMAIN conv |-> conv[k].value]],
                       err |-> "nil"]
    ELSE IF node.Kind = KindArray
        THEN LET conv == [i \in DOMAIN node.Array |->
                             nodeToValue(node.Array[i])]
             IN  IF \E i \in DOMAIN conv : conv[i].err # "nil"
                 THEN [value |-> GoNil, err |-> "unknown node kind"]
                 ELSE [value |-> [go |-> "slice",
                                  l |-> [i \in DOMAIN conv |-> conv[i].value]],
                       err |-> "nil"]
    ELSE [value |-> GoNil, err |-> "unknown node kind"]

\* (*Patch)(nil)
NilPatch == [ptr |-> "nil"]

\* Operation: Value is nil and From is "" when the field is not set.
Operation(op, path, value, from) ==
    [Op |-> op, Path |-> path, Value |-> value, From |-> from]

\* Operation{}
NoOperation == Operation("", <<>>, GoNil, <<>>)

\* a variant of changeToOperation in which a removal carries the old value
changeToOperation_removeValue(change) ==
    IF change.Type = ChangeTypeAdd
    THEN LET r == nodeToValue(change.NewValue)
         IN  IF r.err # "nil" THEN [op |-> NoOperation, err |-> r.err]
             ELSE [op |-> Operation("add", change.Path, r.value, <<>>),
                   err |-> "nil"]
    ELSE IF change.Type = ChangeTypeRemove
    THEN LET r == nodeToValue(change.OldValue)
         IN  [op |-> Operation("remove", change.Path, r.value, <<>>),
              err |-> "nil"]
    ELSE IF change.Type = ChangeTypeModify
    THEN LET r == nodeToValue(change.NewValue)
         IN  IF r.err # "nil" THEN [op |-> NoOperation, err |-> r.err]
             ELSE [op |-> Operation("replace", change.Path, r.value, <<>>),
                   err |-> "nil"]
    ELSE IF change.Type = ChangeTypeMove
    THEN [op |-> Operation("replace", change.Path, GoNil, <<>>),
          err |-> "nil"]
    ELSE [op |-> NoOperation, err |-> "unknown change type"]

\* changeToOperation converts a single change to an operation.
changeToOperation(change) ==
    IF change.Type = ChangeTypeAdd
    THEN LET r == nodeToValue(change.NewValue)
         IN  IF r.err # "nil" THEN [op |-> NoOperation, err |-> r.err]
             ELSE [op |-> Operation("add", change.Path, r.value, <<>>),
                   err |-> "nil"]
    ELSE IF change.Type = ChangeTypeRemove
    THEN [op |-> Operation("remove", change.Path, GoNil, <<>>),
          err |-> "nil"]
    ELSE IF change.Type = ChangeTypeModify
    THEN LET r == nodeToValue(change.NewValue)
         IN  IF r.err # "nil" THEN [op |-> NoOperation, err |-> r.err]
             ELSE [op |-> Operation("replace", change.Path, r.value, <<>>),
                   err |-> "nil"]
    ELSE IF change.Type = ChangeTypeMove
    THEN [op |-> Operation("replace", change.Path, GoNil, <<>>),
          err |-> "nil"]
    ELSE [op |-> NoOperation, err |-> "unknown change type"]

\* the first index at which the sequence of flags holds TRUE, 0 when there
\* is none
FirstIndex(flags) ==
    IF \E i \in DOMAIN flags : flags[i]
    THEN CHOOSE i \in DOMAIN flags :
             flags[i] /\ \A j \in 1..(i - 1) : ~flags[j]
    ELSE 0

\* a variant of FromChanges that leaves out the changes it cannot convert
FromChanges_skipUnknown(cs) ==
    LET conv == [i \in DOMAIN cs |-> changeToOperation(cs[i])]
        Good(r) == r.err = "nil"
    IN  [patch |-> [Operations |->
                       [i \in 1..Len(SelectSeq(conv, Good)) |->
                           SelectSeq(conv, Good)[i].op]],
         err |-> "nil"]

\* FromChanges converts a list of changes into a patch: the patch (nil on
\* an error) and the error of the first change that does not convert.
FromChanges(cs) ==
    LET conv == [i \in DOMAIN cs |-> changeToOperation(cs[i])]
    IN  IF FirstIndex([i \in DOMAIN cs |-> conv[i].err # "nil"]) # 0
        THEN [patch |-> NilPatch, err |-> "failed to convert change"]
        ELSE [patch |-> [Operations |-> [i \in DOMAIN cs |-> conv[i].op]],
              err |-> "nil"]

\* Operation.Validate checks if an operation is valid.
OperationValidate(o) ==
    IF o.Op \notin {"add", "remove", "replace", "move", "copy", "test"}
    THEN "invalid operation type"
    ELSE IF o.Path = <<>> THEN "path is required"
    ELSE IF o.Op = "remove" /\ o.Value # GoNil
    THEN "remove operation should not have a value"
    ELSE IF o.Op = "remove" /\ o.From # <<>>
    THEN "remove operation should not have a from field"
    ELSE IF o.Op \in {"move", "copy"} /\ o.From = <<>>
    THEN "operation requires a from field"
    ELSE "nil"

\* Patch.Validate checks if the patch is valid: the error of the first
\* operation that is not.
PatchValidate(p) ==
    LET i == FirstIndex([j \in DOMAIN p.Operations |->
                            OperationValidate(p.Operations[j]) # "nil"])
    IN  IF i = 0 THEN "nil" ELSE OperationValidate(p.Operations[i])

-----------------------------------------------------------------------------
(* The state machine of a patch: a change list, FromChanges, Validate *)

MaxChanges == 2

pa == <<"/">> \o ka

pb == <<"/">> \o kb

\* A change built by hand carries no traversal history.
Built(type, path, old, new) == Change(type, path, old, new, <<>>)

\* Changes a caller can hold: the four types with values of every kind, a
\* type the package does not define and a change without a path.
BuiltChanges ==
    {Built(ChangeTypeAdd, pa, Nil, StrP),
     Built(ChangeTypeAdd, pb, Nil, NewNull),
     Built(ChangeTypeAdd, <<>>, Nil, NewBool(TRUE)),
     Built(ChangeTypeRemove, pa, StrP, Nil),
     Built(ChangeTypeModify, pb, Str1,
           NewObject(ka :> NewArray(<<NewNumber(1)>>))),
     Built(ChangeTypeMove, pa, StrP, StrP),
     Built("rename", pb, StrP, StrP)}

ChangeLists == UNION {[1..n -> BuiltChanges] : n \in 0..MaxChanges}

PatchInit ==
    /\ pc = "changes"
    /\ a = Nil /\ b = Nil /\ opts = NoOptions
    /\ changes \in ChangeLists
    /\ err = "none"
    /\ NoMatchCall /\ NoCalls
    /\ NoPatch /\ NoResult /\ NoCli /\ NoRender

\* patch, patchErr := FromChanges(changes), on a list built by hand or
\* returned by Diff
FromChangesCall ==
    /\ pc = "changes" \/ (pc = "done" /\ err = "nil")
    /\ patch' = FromChanges(changes).patch
    /\ patchErr' = FromChanges(changes).err
    /\ pc' = "patched"
    /\ UNCHANGED <<a, b, opts, changes, err, matchVars, calls, validErr>>
    /\ UNCHANGED <<result, cli, render>>

\* validErr := patch.Validate(), when FromChanges returned a patch
ValidateCall ==
    /\ pc = "patched"
    /\ patch # NilPatch
    /\ validErr' = PatchValidate(patch)
    /\ pc' = "validated"
    /\ UNCHANGED <<a, b, opts, changes, err, matchVars, calls>>
    /\ UNCHANGED <<patch, patchErr, result, cli, render>>

PatchNext == FromChangesCall \/ ValidateCall

PatchSpec == PatchInit /\ [][PatchNext]_vars

Patched == pc \in {"patched", "validated"}

KnownTypes ==
    {ChangeTypeAdd, ChangeTypeRemove, ChangeTypeModify, ChangeTypeMove}

\* the operation the derivation owes to one change
Owed(c) ==
    IF c.Type = ChangeTypeAdd
    THEN Operation("add", c.Path, nodeToValue(c.NewValue).value, <<>>)
    ELSE IF c.Type = ChangeTypeRemove
    THEN Operation("remove", c.Path, GoNil, <<>>)
    ELSE IF c.Type = ChangeTypeModify
    THEN Operation("replace", c.Path, nodeToValue(c.NewValue).value, <<>>)
    ELSE Operation("replace", c.Path, GoNil, <<>>)

\* C21: patch derivation.  FromChanges gives one operation per change, in
\* the order of the changes and with their paths: add with the converted
\* NewValue for Add, remove without a value for Remove, replace with the
\* converted NewValue for Modify, replace without a value for Move; a
\* change of any other type gives an error and no patch.
C21_PatchDerivation ==
    Patched =>
        IF \A i \in DOMAIN changes : changes[i].Type \in KnownTypes
        THEN /\ patchErr = "nil"
             /\ patch # NilPatch
             /\ Len(patch.Operations) = Len(changes)
             /\ \A i \in DOMAIN changes :
                    patch.Operations[i] = Owed(changes[i])
        ELSE patchErr # "nil" /\ patch = NilPatch

\* A Move followed by an Add of a string has become a replace without a
\* value followed by an add with the string.
C21_Witness ==
    /\ Patched
    /\ Len(changes) = 2
    /\ changes[1].Type = ChangeTypeMove
    /\ changes[2].Type = ChangeTypeAdd /\ changes[2].NewValue = StrP
    /\ patch # NilPatch
    /\ patch.Operations[1] = Operation("replace", pa, GoNil, <<>>)
    /\ patch.Operations[2] =
           Operation("add", pa, [go |-> "string", v |-> <<"p">>], <<>>)

-----------------------------------------------------------------------------
(* The state machine of the patch workflow: Diff, FromChanges, Validate *)

PipeTrees ==
    {Nil} \cup Leaves \cup Flat
        \cup ArraysOver({NewNumber(1), NewObject(ka :> StrP),
                         NewObject(ka :> Str1)}, MaxLen)

PipeOptions ==
    [IgnorePaths : {<<>>, <<Pattern(<<ka>>)>>},
     ArraySetKeys : {<<>>, (<<"/">> :> ka)},
     Coercions : CoercionChoices, StableOrder : BOOLEAN]

PipeInit == \E x, y \in PipeTrees, o \in PipeOptions : Called(x, y, o)

PipeNext == DiffCall \/ FromChangesCall \/ ValidateCall

PipeSpec == PipeInit /\ [][PipeNext]_vars

\* what Patch.Validate asks of one operation, in the claim's words
WellFormed(o) ==
    /\ o.Op \in {"add", "remove", "replace", "move", "copy", "test"}
    /\ o.Path # <<>>
    /\ o.Op = "remove" => o.Value = GoNil /\ o.From = <<>>
    /\ o.Op \in {"move", "copy"} => o.From # <<>>

\* C22: every patch derived from a diff is valid.  For the list a call of
\* Diff returned, FromChanges succeeds, and the patch passes Validate:
\* every operation has a known op, a path, neither value nor from on a
\* remove and a from on a move or copy.
C22_DerivedPatchValid ==
    /\ Patched => patchErr = "nil" /\ patch # NilPatch
    /\ pc = "validated" =>
           /\ validErr = "nil"
           /\ \A i \in DOMAIN patch.Operations :
                  WellFormed(patch.Operations[i])

\* The patch of a diff with a removal and an addition has been validated.
C22_Witness ==
    /\ pc = "validated"
    /\ \E i \in DOMAIN changes : changes[i].Type = ChangeTypeRemove
    /\ \E i \in DOMAIN patch.Operations : patch.Operations[i].Op = "add"
    /\ \E i \in DOMAIN patch.Operations : patch.Operations[i].Op = "remove"

-----------------------------------------------------------------------------
(* The command line: compare, compareFiles, compareDirectories and main *)

\* Most files of a directory pair.
MaxFiles == 2

\* What a relative path of a directory pair holds: a file on both sides
\* (equal, different, one side unreadable, one side not parsable) or a
\* file on one side only.
PairStatus ==
    {"same", "differs", "unreadable", "unparsable", "added", "removed"}

InBoth == {"same", "differs", "unreadable", "unparsable"}

\* compareFiles performs the diff operation between two files: whether it
\* ends the process with os.Exit(1), and the error it returns otherwise.
\* The options are validated, both inputs read, DiffBytes parses and
\* compares them, and with the exit-code option a result with changes ends
\* the process.
compareFiles(status, c) ==
    IF ~c.validOptions THEN [exits |-> FALSE, err |-> "invalid options"]
    ELSE IF status = "unreadable"
        THEN [exits |-> FALSE, err |-> "read failed"]
    ELSE IF status = "unparsable"
        THEN [exits |-> FALSE, err |-> "diff failed"]
    ELSE IF c.exitCode /\ status = "differs"
        THEN [exits |-> TRUE, err |-> "nil"]
    ELSE [exits |-> FALSE, err |-> "nil"]

\* The process has ended with the given code, inside the named function.
Exited(c, code, where) ==
    [c EXCEPT !.at = "exited", !.code = code, !.exitedIn = where]

\* compare has returned to main with the given error.
Returned(c, e) ==
    [c EXCEPT !.at = "returned", !.ret = e,
              !.errorSeen = c.errorSeen \/ e # "nil"]

\* A run of the command line about to call compare.
NewRun(old, new, single, pairs, recursive, exitCode, validOptions, scanOk) ==
    [old |-> old, new |-> new, single |-> single, pairs |-> pairs,
     recursive |-> recursive, exitCode |-> exitCode,
     validOptions |-> validOptions, scanOk |-> scanOk,
     at |-> "start", todo |-> {}, visited |-> {},
     hasAnyChanges |-> FALSE, filesCompared |-> 0,
     ret |-> "none", code |-> 0, exitedIn |-> "none",
     errorSeen |-> FALSE]

PairLists == UNION {[1..n -> PairStatus] : n \in 0..MaxFiles}

\* Two directories with their files, or two arguments of which at most one
\* is a directory and any may be missing.
Runs ==
    {NewRun("dir", "dir", "same", ps, r, e, v, s) :
        ps \in PairLists, r \in BOOLEAN, e \in BOOLEAN, v \in BOOLEAN,
        s \in BOOLEAN}
    \cup
    {NewRun(k[1], k[2], st, <<>>, r, e, v, TRUE) :
        k \in ({"file", "dir", "missing"} \X {"file", "dir", "missing"})
                 \ {<<"dir", "dir">>},
        st \in {"same", "differs", "unparsable"},
        r \in BOOLEAN, e \in BOOLEAN, v \in BOOLEAN}

CliInit ==
    /\ pc = "cli"
    /\ a = Nil /\ b = Nil /\ opts = NoOptions
    /\ changes = <<>> /\ err = "none"
    /\ NoMatchCall /\ NoCalls
    /\ NoPatch /\ NoResult /\ NoRender
    /\ cli \in Runs

\* compare(oldFile, newFile), up to the loop of compareDirectories: two
\* directories need the recursive flag and are scanned, a directory
\* against a file is an error, anything else goes to compareFiles (a
\* missing argument fails there, when it is read).
CompareCall ==
    /\ pc = "cli"
    /\ cli.at = "start"
    /\ cli' =
         IF cli.old = "dir" /\ cli.new = "dir"
         THEN IF ~cli.recursive
              THEN Returned(cli, "comparing directories requires --recursive")
              ELSE IF ~cli.scanOk
              THEN Returned(cli, "failed to scan directory")
              ELSE [cli EXCEPT !.at = "loop", !.todo = DOMAIN cli.pairs]
         ELSE IF cli.old = "dir" \/ cli.new = "dir"
         THEN Returned(cli, "cannot compare directory with file")
         ELSE LET st == IF "missing" \in {cli.old, cli.new}
                        THEN "unreadable" ELSE cli.single
                  r == compareFiles(st, cli)
              IN  IF r.exits
                  THEN Exited(cli, 1, "compareFiles")
                  ELSE Returned(cli, r.err)
    /\ UNCHANGED <<diffVars, matchVars, calls, patchVars, result, render>>

\* One iteration of "for relPath := range allPaths", on whichever path
\* the map yields next.
LoopStep ==
    /\ pc = "cli"
    /\ cli.at = "loop"
    /\ \E i \in cli.todo :
         LET st == cli.pairs[i]
             r == compareFiles(st, cli)
             c == [cli EXCEPT !.todo = cli.todo \ {i}]
         IN  cli' =
               IF st \in InBoth
               THEN IF r.exits
                    THEN Exited([c EXCEPT !.visited = c.visited \cup {i}],
                                1, "compareFiles")
                    ELSE IF r.err # "nil"
                    THEN [c EXCEPT !.visited = c.visited \cup {i},
                                   !.errorSeen = TRUE]
                    ELSE [c EXCEPT !.visited = c.visited \cup {i},
                                   !.filesCompared = c.filesCompared + 1]
               ELSE [c EXCEPT !.hasAnyChanges = TRUE]
    /\ UNCHANGED <<diffVars, matchVars, calls, patchVars, result, render>>

\* The loop is over: compareDirectories exits with 1 in exit-code mode
\* when a file was added or removed, and returns nil otherwise.
LoopEnd ==
    /\ pc = "cli"
    /\ cli.at = "loop"
    /\ cli.todo = {}
    /\ cli' = IF cli.exitCode /\ cli.hasAnyChanges
              THEN Exited(cli, 1, "compareDirectories")
              ELSE Returned(cli, "nil")
    /\ UNCHANGED <<diffVars, matchVars, calls, patchVars, result, render>>

\* main: an error of the command ends the process with code 1, no error
\* with code 0.
MainExit ==
    /\ pc = "cli"
    /\ cli.at = "returned"
    /\ cli' = Exited(cli, IF cli.ret # "nil" THEN 1 ELSE 0, "main")
    /\ UNCHANGED <<diffVars, matchVars, calls, patchVars, result, render>>

CliNext == CompareCall \/ LoopStep \/ LoopEnd \/ MainExit

CliSpec == CliInit /\ [][CliNext]_vars

\* The run is one of the command line and the process has ended.
ProcessEnded == pc = "cli" /\ cli.at = "exited"

\* The run compares two directories file by file.
DirectoryRun ==
    /\ pc = "cli"
    /\ cli.old = "dir" /\ cli.new = "dir"
    /\ cli.recursive /\ cli.scanOk

\* C23: directory comparison does not exit early.  With the exit-code
\* option, the process ends only after every file that exists in both
\* directories has been compared, and it ends after compareDirectories has
\* returned, never from inside the comparison of one file pair.
C23_NoEarlyExit ==
    (ProcessEnded /\ DirectoryRun /\ cli.exitCode) =>
        /\ \A i \in DOMAIN cli.pairs :
               cli.pairs[i] \in InBoth => i \in cli.visited
        /\ cli.exitedIn = "main"

\* C24: exit code on error.  When an error occurred while comparing, for
\* a single file pair or for a file pair of a recursive directory
\* comparison, compare returns an error and the process ends with code 1.
C24_ErrorExitCode ==
    (ProcessEnded /\ cli.errorSeen) =>
        /\ cli.ret \notin {"none", "nil"}
        /\ cli.code = 1

-----------------------------------------------------------------------------
(* Package configdiff: DiffTrees and its Result *)

\* Patch{}
EmptyPatch == [Operations |-> <<>>]

\* DiffTrees compares two normalized tree nodes and returns the diff
\* result: the set of (result, error) pairs the call can return.  The
\* result holds the changes of diff.Diff, Patch{} and "".
DiffTrees(x, y, o) ==
    {IF r.err # "nil"
     THEN [result |-> [ptr |-> "nil"], err |-> "diff failed"]
     ELSE [result |-> [Changes |-> r.changes, Patch |-> EmptyPatch,
                       Report |-> <<>>],
           err |-> "nil"] : r \in Diff(x, y, o)}

\* result, err := DiffTrees(a, b, opts)
DiffTreesCall ==
    /\ pc = "call"
    /\ \E r \in DiffTrees(a, b, opts) :
          /\ result' = r.result
          /\ err' = r.err
    /\ pc' = "result"
    /\ UNCHANGED <<a, b, opts, changes, matchVars, calls, patchVars>>
    /\ UNCHANGED <<cli, render>>

TreesNext == DiffTreesCall

TreesSpec == PipeInit /\ [][TreesNext]_vars

\* C25: the Result of DiffTrees carries, besides Changes, the Patch derived
\* from those changes, one operation per change, and the Report of those
\* changes, a text that is not empty when there is a change.
C25_ResultCarriesPatchAndReport ==
    (pc = "result" /\ err = "nil") =>
        /\ Len(result.Patch.Operations) = Len(result.Changes)
        /\ result.Patch = FromChanges(result.Changes).patch
        /\ result.Changes # <<>> => result.Report # <<>>

-----------------------------------------------------------------------------
(* C26 *)

ScalarKinds == {KindBool, KindNumber, KindString}

\* The values of two nodes of one scalar kind compare equal (two Numbers
\* as IEEE-754 numbers).
ComparesEqual(x, y) ==
    IF x.Kind = KindNumber THEN FloatEq(x.Value, y.Value)
    ELSE x.Value = y.Value

\* C26: coercion is consulted only on kind mismatch.  Where two present
\* nodes of the same scalar kind meet, nothing is returned if their values
\* compare equal and exactly one Modify otherwise, whatever the Coercions
\* are: two Strings of different text give one Modify with both coercions
\* enabled even if they parse to the same number or differ in case only.
\* Null against Null gives nothing.
C26_SameKindNoCoercion ==
    Done =>
        \A v \in Compared(a, b, <<>>) :
            /\ \A k \in ScalarKinds :
                   KindsMeet(v, k, k) =>
                       IF ComparesEqual(v.old, v.new)
                       THEN NoChangeAt(v.loc)
                       ELSE OneModify(v)
            /\ KindsMeet(v, KindNull, KindNull) => NoChangeAt(v.loc)

\* With both coercions enabled, the Strings "1" and "01" under the key "a"
\* have given one Modify.
C26_Witness ==
    /\ Done
    /\ opts.Coercions.NumericStrings /\ opts.Coercions.BoolStrings
    /\ a = NewObject(ka :> NewString(<<"1">>))
    /\ b = NewObject(ka :> NewString(<<"0", "1">>))
    /\ Len(changes) = 1
    /\ changes[1].Type = ChangeTypeModify
    /\ changes[1].Path = <<"/", "a">>

-----------------------------------------------------------------------------
(* C27 *)

\* no IgnorePaths, no ArraySetKeys, both coercions disabled
DefaultOptions ==
    /\ opts.IgnorePaths = <<>>
    /\ opts.ArraySetKeys = <<>>
    /\ ~opts.Coercions.NumericStrings /\ ~opts.Coercions.BoolStrings

RECURSIVE StructurallyEqual(_, _)
\* The same kind at every position, equal scalar values, the same keys in
\* every object and the same length of every array.
StructurallyEqual(x, y) ==
    IF x = Nil \/ y = Nil THEN x = y
    ELSE IF x.Kind # y.Kind THEN FALSE
    ELSE IF x.Kind = KindNull THEN TRUE
    ELSE IF x.Kind \in {KindBool, KindNumber, KindString}
    THEN x.Value = y.Value
    ELSE IF x.Kind = KindObject
    THEN /\ DOMAIN x.Object = DOMAIN y.Object
         /\ \A k \in DOMAIN x.Object :
                StructurallyEqual(x.Object[k], y.Object[k])
    ELSE /\ Len(x.Array) = Len(y.Array)
         /\ \A i \in DOMAIN x.Array :
                StructurallyEqual(x.Array[i], y.Array[i])

\* C27: completeness with default options.  With no IgnorePaths, no
\* ArraySetKeys and no coercion, Diff returns no change if and only if the
\* two trees are structurally equal.
C27_Completeness ==
    (Done /\ DefaultOptions) =>
        (changes = <<>> <=> StructurallyEqual(a, b))

-----------------------------------------------------------------------------
(* C28 *)

\* C28: path uniqueness.  The list one call of Diff returns never holds
\* two changes with the same Path, whatever the trees (keys may hold '/',
\* '[' or ']') and the options.
C28_UniquePaths ==
    Done =>
        \A i, j \in 1..Len(changes) :
            changes[i].Path = changes[j].Path => i = j

-----------------------------------------------------------------------------
(* C29 *)

RECURSIVE SubtreeAt(_, _)
\* The node of the tree x at the end of the steps loc, Nil when there is
\* none.
SubtreeAt(x, loc) ==
    IF loc = <<>> \/ x = Nil THEN x
    ELSE LET step == Head(loc)
             next == IF step[1] = "key" THEN Member(x, step[2])
                     ELSE IF step[1] = "idx" THEN Element(x, step[2])
                     ELSE KeyedElement(x, step[2], step[3])
         IN  SubtreeAt(next, Tail(loc))

RECURSIVE PlacesIn(_, _)
\* The places of a subtree that stands at loc, itself included.
PlacesIn(x, loc) ==
    {loc} \cup
    IF x = Nil THEN {}
    ELSE IF x.Kind = KindObject
    THEN UNION {PlacesIn(x.Object[k], Append(loc, <<"key", k>>))
                   : k \in DOMAIN x.Object}
    ELSE IF x.Kind = KindArray
    THEN UNION {PlacesIn(x.Array[i], Append(loc, <<"idx", i - 1>>))
                   : i \in DOMAIN x.Array}
    ELSE {}

\* C29: ignore patterns filter paths, not values.  An Add carries as its
\* NewValue the whole subtree the new tree has at the place of the change,
\* a Remove as its OldValue the whole subtree of the old tree, and a Modify
\* both, with every descendant whose own path matches an ignore pattern;
\* the place of the change itself is never an ignored one.
C29_ValuesUnfiltered ==
    Done =>
        \A i \in 1..Len(changes) :
            LET c == changes[i]
            IN  /\ ~Ignored(c.Path)
                /\ c.Type = ChangeTypeAdd =>
                       c.NewValue # Nil /\ c.NewValue = SubtreeAt(b, c.loc)
                /\ c.Type = ChangeTypeRemove =>
                       c.OldValue # Nil /\ c.OldValue = SubtreeAt(a, c.loc)
                /\ c.Type = ChangeTypeModify =>
                       /\ c.OldValue = SubtreeAt(a, c.loc)
                       /\ c.NewValue = SubtreeAt(b, c.loc)

\* A change has been returned (an Add, a Remove or a Modify between two
\* kinds) whose value holds a descendant with an ignored path.
C29_Witness ==
    /\ Done
    /\ \E i \in 1..Len(changes) :
           LET c == changes[i]
               v == IF c.Type = ChangeTypeRemove THEN c.OldValue
                    ELSE c.NewValue
           IN  /\ c.Type = ChangeTypeModify => c.OldValue.Kind # v.Kind
               /\ \E p \in PlacesIn(v, c.loc) \ {c.loc} :
                      Ignored(RenderPath(p))

-----------------------------------------------------------------------------
(* Package report: GenerateSideBySide and the process-wide color.NoColor *)

\* Calls of GenerateSideBySide in one process.
NumRenders == 2

\* A call about to be made: whether its change list is empty and its
\* opts.NoColor.  originalNoColor is the call's local variable, observed
\* what the colour functions of the call found in color.NoColor.
NewRender(empty, noColor) ==
    [empty |-> empty, noColor |-> noColor, at |-> "start",
     originalNoColor |-> FALSE, observed |-> "none"]

\* Some other call is between its first and its last access of the flag.
Overlaps(p) ==
    \E q \in DOMAIN render.calls :
        q # p /\ render.calls[q].at \in {"saved", "set", "rendered"}

RenderInit ==
    /\ pc = "render"
    /\ a = Nil /\ b = Nil /\ opts = NoOptions
    /\ changes = <<>> /\ err = "none"
    /\ NoMatchCall /\ NoCalls
    /\ NoPatch /\ NoResult /\ NoCli
    /\ \E flag \in BOOLEAN :
       \E cs \in [1..NumRenders ->
                     {NewRender(e, n) : e \in BOOLEAN, n \in BOOLEAN}] :
           render = [NoColor |-> flag, before |-> flag, calls |-> cs,
                     overlapped |-> FALSE]

\* Call p enters: an empty change list returns at once, otherwise
\* originalNoColor := color.NoColor.
RenderEnter(p) ==
    /\ pc = "render"
    /\ render.calls[p].at = "start"
    /\ render' =
         IF render.calls[p].empty
         THEN [render EXCEPT !.calls[p].at = "returned"]
         ELSE [render EXCEPT !.calls[p].at = "saved",
                             !.calls[p].originalNoColor = render.NoColor,
                             !.overlapped = render.overlapped \/ Overlaps(p)]
    /\ UNCHANGED <<diffVars, matchVars, calls, patchVars, result, cli>>

\* if opts.NoColor { color.NoColor = true }
RenderSet(p) ==
    /\ pc = "render"
    /\ render.calls[p].at = "saved"
    /\ render' =
         [render EXCEPT !.calls[p].at = "set",
                        !.NoColor = IF render.calls[p].noColor THEN TRUE
                                    ELSE render.NoColor]
    /\ UNCHANGED <<diffVars, matchVars, calls, patchVars, result, cli>>

\* The text is built; unless opts.NoColor is set the values go through the
\* colour functions, which consult color.NoColor.
RenderBody(p) ==
    /\ pc = "render"
    /\ render.calls[p].at = "set"
    /\ render' =
         [render EXCEPT !.calls[p].at = "rendered",
                        !.calls[p].observed =
                            IF render.calls[p].noColor THEN "none"
                            ELSE IF render.NoColor THEN "true" ELSE "false"]
    /\ UNCHANGED <<diffVars, matchVars, calls, patchVars, result, cli>>

\* The deferred function: color.NoColor = originalNoColor.
RenderReturn(p) ==
    /\ pc = "render"
    /\ render.calls[p].at = "rendered"
    /\ render' =
         [render EXCEPT !.calls[p].at = "returned",
                        !.NoColor = render.calls[p].originalNoColor]
    /\ UNCHANGED <<diffVars, matchVars, calls, patchVars, result, cli>>

RenderNext ==
    \E p \in 1..NumRenders :
        RenderEnter(p) \/ RenderSet(p) \/ RenderBody(p) \/ RenderReturn(p)

RenderSpec == RenderInit /\ [][RenderNext]_vars

AllReturned ==
    /\ pc = "render"
    /\ \A p \in DOMAIN render.calls : render.calls[p].at = "returned"

\* C30: GenerateSideBySide leaves color.NoColor as it found it.  Once the
\* calls have returned, whether they ran one after another or at the same
\* time, the flag has the value it had before the first call, and the
\* colour functions of a call without NoColor found the flag as it was
\* before the first call, not as another call's option set it.
C30_FlagRestored ==
    /\ AllReturned => render.NoColor = render.before
    /\ pc = "render" =>
           \A p \in DOMAIN render.calls :
               render.calls[p].observed # "none" =>
                   render.calls[p].observed =
                       (IF render.before THEN "true" ELSE "false")

=============================================================================
